---- MODULE Spec2Model ----
(***************************************************************************)
(* PPTist-backend: PPTX -> PPTist conversion.                              *)
(*                                                                         *)
(* The repository holds two conversion pipelines:                          *)
(*   - "modules":  modules/conversion/services/parser (parsePPTX,          *)
(*                 parseSingleSlide, parseShape, ...) followed by          *)
(*                 modules/conversion/services/converter.ts;               *)
(*   - "services": services/pptx/unzip.ts (unzipPPTX),                     *)
(*                 services/pptx/parser.ts (parseAllSlides, parseSlideXML, *)
(*                 parseShapeTree, ...), the ConversionOrchestrator and    *)
(*                 ConversionService.convert.                              *)
(*                                                                         *)
(* The specifications share       the variables of this module:                *)
(*   SpecShape  one p:sp element through the XML normalizer and parseShape *)
(*   SpecTree   one shape tree through parseSingleSlide / parseShapeTree   *)
(*   Spec       one package through either pipeline, step by step          *)
(*   SpecColor  one colour node through the colour resolvers               *)
(*   SpecText   one text run through the two text-body parsers             *)
(*   SpecHandler  calls on a ConversionErrorHandler and its child          *)
(*   SpecConvert  convertSlides of converter.ts, one converter call a step *)
(***************************************************************************)
EXTENDS Integers, Sequences, FiniteSets, TLC

VARIABLES
    shapeIn,        \* SpecShape: the raw p:sp element handed to the parser
    shapeOut,       \* SpecShape: what parseShape returned for it
    tree,           \* SpecTree: raw children of p:spTree, in document order
    modSlide,       \* SpecTree: outcome of parseSingleSlide (modules)
    svcSlide,       \* SpecTree: outcome of parseShapeTree (services)
    pkg,            \* Spec: the package handed to the conversion
    pipeline,       \* Spec: "modules" or "services"
    skipValidation, \* Spec: ConversionServiceOptions.skipValidation
    pc,             \* Spec: the step the conversion is at
    extracted,      \* Spec: ExtractedPPTX (services)
    parsed,         \* Spec: parsed slides (PPTXPresentation / ParsedSlide[])
    context,        \* Spec: ConversionContext
    output,         \* Spec: converted slides, as the converter built them
    log,            \* Spec: records written to the logger
    result,         \* Spec: what the caller of the conversion receives
    colorNode,      \* SpecColor: the colour node (child of a:solidFill)
    colorContext,   \* SpecColor: colour maps of slide, layout and master
    resolved,       \* SpecColor: what the last resolver returned for it
    textIn,         \* SpecText: one run with its paragraph and text body
    textOut,        \* SpecText: the run as parsed, with its colour
    handlerWarnings, \* SpecHandler: warnings of a ConversionErrorHandler
    childWarnings,  \* SpecHandler: warnings of its child processor
    handled,        \* SpecHandler: the last handleElementError call
    convContext,    \* SpecConvert: the ConversionContext of convertSlides
    convIndex,      \* SpecConvert: i of the loop of convertSlides
    convSlides,     \* SpecConvert: the slides of the presentation
    convPending,    \* SpecConvert: elements of slide i not yet converted
    convElements,   \* SpecConvert: elements of slide i converted so far
    convHandler,    \* SpecConvert: warnings of the error handler of slide i
    convOutput,     \* SpecConvert: the slides converted so far
    convPc,         \* SpecConvert: where convertSlides / convertSlide is
    rectIn,         \* SpecGeometry: the p:spPr of one shape and the slide size
    rectOut,        \* SpecGeometry: the shape as parsed and as converted
    workerOutcome,  \* SpecWorker: how the conversion of the task ends
    workerPc,       \* SpecWorker: where taskHandler / processTask is
    convStep,       \* SpecWorker: progress reports made by ConversionService.convert
    inFlight,       \* SpecWorker: queue updates of updateTaskProgress not yet applied
    taskStatus,     \* SpecWorker: status of the task in the queue
    taskProgress,   \* SpecWorker: progress of the task in the queue
    taskError,      \* SpecWorker: task.error of the local task object
    uploadedFile,   \* SpecWorker: whether the uploaded input file still exists
    archive,        \* SpecRels: the slide parts of a package, by the number in the file name
    slideFiles,     \* SpecRels: getContentTypes(zip).slides
    relsIndex,      \* SpecRels: i of the slide loop of parsePPTX
    slideMediaMaps, \* SpecRels: the per-slide rId -> media maps pushed so far
    relsPc,         \* SpecRels: where parsePPTX is
    tableIn,        \* SpecTable: the rows of a parsed table element
    tableOut,       \* SpecTable: the data of the converted table element
    zipArchive,     \* SpecUnzip: the archive on disk and the options of the call
    zipPc,          \* SpecUnzip: where unzipPPTX and yauzl stand
    zipPos,         \* SpecUnzip: entries delivered to the entry handler so far
    readEntryCalls, \* SpecUnzip: zipfile.readEntry() calls made while handling each delivered entry
    extractedParts, \* SpecUnzip: positions of the entries stored in the result
    unzipPromise    \* SpecUnzip: state of the promise unzipPPTX returned

shapeVars == <<shapeIn, shapeOut>>
treeVars  == <<tree, modSlide, svcSlide>>
pkgVars   == <<pkg, pipeline, skipValidation, pc, extracted, parsed, context,
               output, log, result>>
colorVars == <<colorNode, colorContext, resolved>>
textVars  == <<textIn, textOut>>
handlerVars == <<handlerWarnings, childWarnings, handled>>
convertVars == <<convContext, convIndex, convSlides, convPending, convElements,
                 convHandler, convOutput, convPc>>
geomVars  == <<rectIn, rectOut>>
workerVars == <<workerOutcome, workerPc, convStep, inFlight, taskStatus, taskProgress, taskError, uploadedFile>>
relsVars == <<archive, slideFiles, relsIndex, slideMediaMaps, relsPc>>
tableVars == <<tableIn, tableOut>>
unzipVars == <<zipArchive, zipPc, zipPos, readEntryCalls, extractedParts, unzipPromise>>
lateVars  == <<geomVars, workerVars, relsVars, tableVars, unzipVars>>
styleVars == <<colorVars, textVars, handlerVars, convertVars, lateVars>>
earlyVars == <<shapeVars, treeVars, pkgVars, colorVars, textVars, handlerVars,
               convertVars>>
restOfGeom == <<earlyVars, workerVars, relsVars, tableVars, unzipVars>>
restOfWorker == <<earlyVars, geomVars, relsVars, tableVars, unzipVars>>
restOfRels == <<earlyVars, geomVars, workerVars, tableVars, unzipVars>>
restOfTable == <<earlyVars, geomVars, workerVars, relsVars, unzipVars>>
restOfUnzip == <<earlyVars, geomVars, workerVars, relsVars, tableVars>>
vars == <<shapeVars, treeVars, pkgVars, styleVars>>

(***************************************************************************)
(* Bounds of the model.                                                    *)
(***************************************************************************)
MaxTextLen == 3     \* characters in one a:t text
MaxRuns    == 2     \* runs in one text body
MaxElems   == 4     \* children of one shape tree
MaxSlides  == 2     \* slides in one package

(***************************************************************************)
(* Text.  A text is a sequence of characters; the alphabet has a blank, a  *)
(* letter and two digits.                                                  *)
(***************************************************************************)
Chars  == {" ", "a", "0", "1"}
Digits == {"0", "1"}
Texts  == UNION {[1..n -> Chars] : n \in 0..MaxTextLen}

RECURSIVE trimStart(_)
trimStart(s) == IF s # <<>> /\ Head(s) = " " THEN trimStart(Tail(s)) ELSE s

RECURSIVE trimEnd(_)
trimEnd(s) ==
    IF s # <<>> /\ s[Len(s)] = " " THEN trimEnd(SubSeq(s, 1, Len(s) - 1)) ELSE s

\* String.prototype.trim
trim(s) == trimEnd(trimStart(s))

DigitValue(c) == IF c = "1" THEN 1 ELSE 0
DigitChar(d)  == IF d = 1 THEN "1" ELSE "0"

\* Number("101") = 101
RECURSIVE Number(_)
Number(s) ==
    IF s = <<>> THEN 0
    ELSE 10 * Number(SubSeq(s, 1, Len(s) - 1)) + DigitValue(s[Len(s)])

\* String(n) for a number whose decimal digits are 0 and 1
RECURSIVE NumberToString(_)
NumberToString(n) ==
    IF n < 10 THEN <<DigitChar(n)>>
    ELSE NumberToString(n \div 10) \o <<DigitChar(n % 10)>>

(***************************************************************************)
(* XML values as the normalizer (fast-xml-parser) returns them.            *)
(* readXmlFile builds the parser with ignoreAttributes, attributeNamePrefix*)
(* attributesGroupName and textNodeName only, so trimValues and            *)
(* parseTagValue keep their defaults (true): the text of a tag is trimmed  *)
(* and a text that reads as a number becomes a number.                     *)
(***************************************************************************)
StringValue(s) == [kind |-> "string", text |-> s, num |-> 0]
NumberValue(n) == [kind |-> "number", text |-> <<>>, num |-> n]

IsNumeric(s) == s # <<>> /\ \A i \in 1..Len(s) : s[i] \in Digits

parseTagValue(raw) ==
    LET t == trim(raw)
    IN  IF IsNumeric(t) THEN NumberValue(Number(t)) ELSE StringValue(t)

\* JavaScript truthiness of a value: '' and 0 are falsy
Falsy(v) ==
    \/ v.kind = "string" /\ v.text = <<>>
    \/ v.kind = "number" /\ v.num = 0

\* String(v)
String(v) == IF v.kind = "string" THEN v.text ELSE NumberToString(v.num)

(***************************************************************************)
(* Raw elements of a shape tree.                                           *)
(*   tag        p:sp | p:pic | p:cxnSp | p:graphicFrame | p:grpSp          *)
(*   id         p:cNvPr id                                                 *)
(*   hasTxBody  the element has a p:txBody                                 *)
(*   txBody     its paragraphs, each a sequence of a:t texts               *)
(*   embed      r:embed of a:blip ("" when absent)                         *)
(*   videoFile, audioFile   r:link of a:videoFile / a:audioFile            *)
(*   uri        a:graphicData uri ("chart", "table" or "")                 *)
(*   malformed  the element makes its parser throw                         *)
(*   children   child elements of a p:grpSp                                *)
(***************************************************************************)
Node(tag, id, hasTxBody, txBody, embed, uri, malformed, children) ==
    [tag |-> tag, id |-> id, hasTxBody |-> hasTxBody, txBody |-> txBody,
     embed |-> embed, videoFile |-> "", audioFile |-> "", uri |-> uri,
     malformed |-> malformed, children |-> children]

\* the normalizer on a text body: every a:t becomes an XML value
readTxBody(txBody) ==
    [p \in 1..Len(txBody) |->
        [r \in 1..Len(txBody[p]) |-> parseTagValue(txBody[p][r])]]

\* the normalizer groups the children of a node by tag: node[tag] lists the
\* children with that tag in document order
ByTag(children, tag) == SelectSeq(children, LAMBDA n : n.tag = tag)

\* Object.keys(node): the tags in order of first occurrence
RECURSIVE Keys(_)
Keys(children) ==
    IF children = <<>> THEN <<>>
    ELSE LET rest == Keys(SubSeq(children, 1, Len(children) - 1))
             t    == children[Len(children)].tag
         IN  IF \E i \in 1..Len(rest) : rest[i] = t THEN rest ELSE Append(rest, t)

Null == [type |-> "null"]

(***************************************************************************)
(* modules/conversion/services/parser/elements                             *)
(***************************************************************************)
PPTXElement(type, id, rId, paragraphs) ==
    [type |-> type, id |-> id, rId |-> rId, paragraphs |-> paragraphs]

\* run text: String(run['a:t'] || '')
RunText(v) == IF Falsy(v) THEN <<>> ELSE String(v)

parseTextBodyToParagraphs(hasTxBody, txBody) ==
    IF ~hasTxBody THEN <<>>
    ELSE [p \in 1..Len(txBody) |->
             [r \in 1..Len(txBody[p]) |-> RunText(txBody[p][r])]]

hasActualText(paragraphs) ==
    \E p \in 1..Len(paragraphs) : \E r \in 1..Len(paragraphs[p]) :
        paragraphs[p][r] # <<>> /\ Len(trim(paragraphs[p][r])) > 0

\* shape: a node whose txBody went through the normalizer
parseShape(shape) ==
    LET paragraphs == parseTextBodyToParagraphs(shape.hasTxBody, shape.txBody)
    IN  IF shape.hasTxBody /\ hasActualText(paragraphs)
        THEN PPTXElement("text", shape.id, "", paragraphs)
        ELSE PPTXElement("shape", shape.id, "", <<>>)

parsePicture(pic) ==
    IF pic.embed = "" THEN Null
    ELSE IF pic.videoFile # "" THEN PPTXElement("video", pic.id, pic.videoFile, <<>>)
    ELSE IF pic.audioFile # "" THEN PPTXElement("audio", pic.id, pic.audioFile, <<>>)
    ELSE PPTXElement("image", pic.id, pic.embed, <<>>)

parseGraphicFrame(frame) ==
    IF frame.uri = "chart" THEN PPTXElement("chart", frame.id, "", <<>>)
    ELSE IF frame.uri = "table" THEN PPTXElement("table", frame.id, "", <<>>)
    ELSE Null

parseConnector(conn) == PPTXElement("line", conn.id, "", <<>>)

\* the element read back from the normalized tree
readNode(n) == [n EXCEPT !.txBody = readTxBody(n.txBody)]

\* the loop body of parseSingleSlide: the switch on the key
parseByKey(key, item) ==
    CASE key = "p:sp"           -> parseShape(readNode(item))
      [] key = "p:pic"          -> parsePicture(item)
      [] key = "p:graphicFrame" -> parseGraphicFrame(item)
      [] key = "p:cxnSp"        -> parseConnector(item)
      [] OTHER                  -> Null

\* the items in the order the two nested loops visit them: key by key, and
\* within a key the items of that key
RECURSIVE ItemsByKey(_, _)
ItemsByKey(children, keys) ==
    IF keys = <<>> THEN <<>>
    ELSE ByTag(children, Head(keys)) \o ItemsByKey(children, Tail(keys))

HasParser(key) == key \in {"p:sp", "p:pic", "p:graphicFrame", "p:cxnSp"}

RECURSIVE NonNull(_)
NonNull(es) ==
    IF es = <<>> THEN <<>>
    ELSE IF Head(es).type = "null" THEN NonNull(Tail(es))
    ELSE <<Head(es)>> \o NonNull(Tail(es))

\* parseSingleSlide: no try/catch around the element parsers, so an element
\* parser that throws ends the function
parseSingleSlide(spTree) ==
    LET items == ItemsByKey(spTree, Keys(spTree))
    IN  IF \E i \in 1..Len(items) : HasParser(items[i].tag) /\ items[i].malformed
        THEN [threw |-> TRUE, elements |-> <<>>]
        ELSE [threw |-> FALSE,
              elements |-> NonNull([i \in 1..Len(items) |->
                                       parseByKey(items[i].tag, items[i])])]

(***************************************************************************)
(* services/pptx/parser.ts                                                 *)
(***************************************************************************)
ParsedElement(type, id, imageRef, textBox, elements) ==
    [type |-> type, id |-> id, zIndex |-> -1, imageRef |-> imageRef,
     textBox |-> textBox, elements |-> elements]

TAG_TO_TYPE(tag) ==
    CASE tag = "p:sp"           -> "shape"
      [] tag = "p:pic"          -> "image"
      [] tag = "p:cxnSp"        -> "line"
      [] tag = "p:graphicFrame" -> "chart"
      [] tag = "p:grpSp"        -> "group"

\* generateElementId(): an id no source element carries
generateElementId(item) == 1000 + item.id

\* extractBaseProperties reads p:nvSpPr, p:nvPicPr or p:nvGraphicFramePr only
extractBaseProperties(item) ==
    IF item.tag \in {"p:sp", "p:pic", "p:graphicFrame"}
    THEN item.id ELSE generateElementId(item)

\* parseTextRun: the text of a run is a:t when it is a string
parseTextBox(item) ==
    IF ~item.hasTxBody THEN <<>>
    ELSE LET body == readTxBody(item.txBody)
         IN  [p \in 1..Len(body) |->
                 [r \in 1..Len(body[p]) |->
                     IF body[p][r].kind = "string" THEN body[p][r].text ELSE <<>>]]

parseShapeSvc(item, id) == ParsedElement("shape", id, "", parseTextBox(item), <<>>)

parseImage(item, id) == ParsedElement("image", id, item.embed, <<>>, <<>>)

parseLine(item, id) == ParsedElement("line", id, "", <<>>, <<>>)

parseChartOrTable(item, id) ==
    IF item.uri = "chart" THEN ParsedElement("chart", id, "", <<>>, <<>>)
    ELSE IF item.uri = "table" THEN ParsedElement("table", id, "", <<>>, <<>>)
    ELSE Null

\* parseElement for the leaf types; the try/catch turns a throw into null
parseLeaf(item, type) ==
    IF item.malformed THEN Null
    ELSE LET id == extractBaseProperties(item)
         IN  CASE type = "shape" -> parseShapeSvc(item, id)
               [] type = "image" -> parseImage(item, id)
               [] type = "chart" -> parseChartOrTable(item, id)
               [] type = "line"  -> parseLine(item, id)
               [] OTHER          -> Null

\* the children of a group are visited tag by tag: p:sp, p:pic,
\* p:graphicFrame, p:cxnSp
GroupChildTags == <<"p:sp", "p:pic", "p:graphicFrame", "p:cxnSp">>

parseGroup(item, id) ==
    LET kids == ItemsByKey(item.children, GroupChildTags)
    IN  ParsedElement("group", id, "", <<>>,
            NonNull([i \in 1..Len(kids) |-> parseLeaf(kids[i], TAG_TO_TYPE(kids[i].tag))]))

parseElement(item, type) ==
    IF item.malformed THEN Null
    ELSE IF type = "group" THEN parseGroup(item, extractBaseProperties(item))
    ELSE parseLeaf(item, type)

\* the opening tags tagRegex matches in the raw XML of the shape tree, in text
\* order: the tag of an element, then the tags inside it
RECURSIVE TagScan(_)
TagScan(children) ==
    IF children = <<>> THEN <<>>
    ELSE <<Head(children).tag>> \o TagScan(Head(children).children)
            \o TagScan(Tail(children))

extractElementOrder(spTreeXml) ==
    LET tags == TagScan(spTreeXml)
    IN  [i \in 1..Len(tags) |->
            [tag |-> tags[i],
             index |-> Cardinality({j \in 1..(i - 1) : tags[j] = tags[i]})]]

\* the loop of parseShapeTree over the first n entries of elementOrder
RECURSIVE rebuildElements(_, _, _)
rebuildElements(spTree, elementOrder, n) ==
    IF n = 0 THEN <<>>
    ELSE LET elements == rebuildElements(spTree, elementOrder, n - 1)
             tag      == elementOrder[n].tag
             index    == elementOrder[n].index
             byTag    == ByTag(spTree, tag)
         IN  IF index + 1 > Len(byTag) THEN elements
             ELSE LET element == parseElement(byTag[index + 1], TAG_TO_TYPE(tag))
                  IN  IF element.type = "null" THEN elements
                      ELSE Append(elements, [element EXCEPT !.zIndex = Len(elements)])

parseShapeTree(spTree, spTreeXml) ==
    LET elementOrder == extractElementOrder(spTreeXml)
    IN  rebuildElements(spTree, elementOrder, Len(elementOrder))

(***************************************************************************)
(* SpecShape: one p:sp element, drawn from the bounded texts, goes through *)
(* the normalizer and parseShape.                                          *)
(***************************************************************************)
NotParsed == [type |-> "pending"]

\* the runs of a body split into two paragraphs after the first k runs
TextBodies ==
    {<<SubSeq(runs, 1, k), SubSeq(runs, k + 1, Len(runs))>> :
        <<runs, k>> \in {<<rs, j>> \in (UNION {[1..n -> Texts] : n \in 0..MaxRuns}) \X (0..MaxRuns) :
                            j <= Len(rs)}}

Shapes ==
    {Node("p:sp", 1, FALSE, <<>>, "", "", FALSE, <<>>)} \cup
    {Node("p:sp", 1, TRUE, b, "", "", FALSE, <<>>) : b \in TextBodies}

\* no colour is being resolved
IdleColor ==
    /\ colorNode = NotParsed
    /\ colorContext = NotParsed
    /\ resolved = NotParsed

\* no text run is being parsed
IdleText == textIn = NotParsed /\ textOut = NotParsed

\* a fresh error handler, nothing handled yet
IdleHandler ==
    /\ handlerWarnings = <<>>
    /\ childWarnings = <<>>
    /\ handled = NotParsed

\* convertSlides is not running
IdleConvert ==
    /\ convContext = NotParsed
    /\ convIndex = 0
    /\ convSlides = <<>>
    /\ convPending = <<>>
    /\ convElements = <<>>
    /\ convHandler = <<>>
    /\ convOutput = <<>>
    /\ convPc = "idle"

\* no shape is being measured
IdleGeom == rectIn = NotParsed /\ rectOut = NotParsed

\* no task has been handed to the worker
IdleWorker ==
    /\ workerOutcome = NotParsed
    /\ workerPc = "idle"
    /\ convStep = 0
    /\ inFlight = {}
    /\ taskStatus = "queued"
    /\ taskProgress = 0
    /\ taskError = ""
    /\ uploadedFile = FALSE

\* parsePPTX is not running on an archive
IdleRels ==
    /\ archive = NotParsed
    /\ slideFiles = <<>>
    /\ relsIndex = 0
    /\ slideMediaMaps = <<>>
    /\ relsPc = "idle"

\* no table is being converted
IdleTable == tableIn = <<>> /\ tableOut = NotParsed

IdleUnzip ==
    /\ zipArchive = NotParsed
    /\ zipPc = "idle"
    /\ zipPos = 0
    /\ readEntryCalls = <<>>
    /\ extractedParts = {}
    /\ unzipPromise = "pending"

IdleLate == IdleGeom /\ IdleWorker /\ IdleRels /\ IdleTable /\ IdleUnzip

IdleStyle == IdleColor /\ IdleText /\ IdleHandler /\ IdleConvert /\ IdleLate

IdleTree == tree = <<>> /\ modSlide = NotParsed /\ svcSlide = NotParsed

\* no conversion of a package is under way
IdlePackage ==
    /\ pkg = [isZip |-> FALSE, encrypted |-> FALSE, hasPresentationXml |-> FALSE,
              slides |-> <<>>]
    /\ pipeline = "modules"
    /\ skipValidation = FALSE
    /\ pc = "idle"
    /\ extracted = NotParsed
    /\ parsed = NotParsed
    /\ context = NotParsed
    /\ output = <<>>
    /\ log = <<>>
    /\ result = NotParsed

InitShape ==
    /\ shapeIn \in Shapes
    /\ shapeOut = NotParsed
    /\ IdleTree
    /\ IdlePackage
    /\ IdleStyle

ParseShape ==
    /\ shapeOut = NotParsed
    /\ shapeIn.tag = "p:sp"
    /\ shapeOut' = parseShape(readNode(shapeIn))
    /\ UNCHANGED <<shapeIn, treeVars, pkgVars, styleVars>>

NextShape == ParseShape

SpecShape == InitShape /\ [][NextShape]_vars

(***************************************************************************)
(* SpecTree: one shape tree, drawn from the element kinds below, goes      *)
(* through the slide parser of each pipeline.                              *)
(***************************************************************************)
Leaf(tag, hasTxBody, txBody, embed, uri, malformed) ==
    Node(tag, 0, hasTxBody, txBody, embed, uri, malformed, <<>>)

PlainShape == Leaf("p:sp", FALSE, <<>>, "", "", FALSE)
TextShape  == Leaf("p:sp", TRUE, <<<<<<" ", "a", " ">>>>>>, "", "", FALSE)
Picture    == Leaf("p:pic", FALSE, <<>>, "rId1", "", FALSE)
Connector  == Leaf("p:cxnSp", FALSE, <<>>, "", "", FALSE)
TableFrame == Leaf("p:graphicFrame", FALSE, <<>>, "", "table", FALSE)
BadShape   == Leaf("p:sp", FALSE, <<>>, "", "", TRUE)
Group      == Node("p:grpSp", 0, FALSE, <<>>, "", "", FALSE, <<PlainShape, Picture>>)

\* a group whose children are not in the order p:sp, p:pic
PictureFirstGroup ==
    Node("p:grpSp", 0, FALSE, <<>>, "", "", FALSE, <<Picture, PlainShape>>)
\* a group inside a group
NestedGroup == Node("p:grpSp", 0, FALSE, <<>>, "", "", FALSE, <<PlainShape, Group>>)

ElementKinds ==
    {PlainShape, TextShape, Picture, Connector, TableFrame, BadShape, Group,
     PictureFirstGroup, NestedGroup}

\* ids follow the position in the document: i for the i-th child of the tree,
\* 10 * i + j for the j-th child of a group, 100 * i + 10 * j + k for the
\* k-th child of a group in a group
WithIds(kinds) ==
    [i \in 1..Len(kinds) |->
        [kinds[i] EXCEPT
            !.id = i,
            !.children = [j \in 1..Len(kinds[i].children) |->
                [kinds[i].children[j] EXCEPT
                    !.id = 10 * i + j,
                    !.children = [k \in 1..Len(kinds[i].children[j].children) |->
                        [kinds[i].children[j].children[k] EXCEPT
                            !.id = 100 * i + 10 * j + k]]]]]]

Trees == {WithIds(k) : k \in UNION {[1..n -> ElementKinds] : n \in 0..MaxElems}}

IdleShape == shapeIn = PlainShape /\ shapeOut = NotParsed

IdleEarly ==
    /\ IdleShape
    /\ IdleTree
    /\ IdlePackage
    /\ IdleColor
    /\ IdleText
    /\ IdleHandler
    /\ IdleConvert

IdleRestOfGeom == IdleEarly /\ IdleWorker /\ IdleRels /\ IdleTable /\ IdleUnzip
IdleRestOfWorker == IdleEarly /\ IdleGeom /\ IdleRels /\ IdleTable /\ IdleUnzip
IdleRestOfRels == IdleEarly /\ IdleGeom /\ IdleWorker /\ IdleTable /\ IdleUnzip
IdleRestOfTable == IdleEarly /\ IdleGeom /\ IdleWorker /\ IdleRels /\ IdleUnzip
IdleRestOfUnzip == IdleEarly /\ IdleGeom /\ IdleWorker /\ IdleRels /\ IdleTable




InitTree ==
    /\ tree \in Trees
    /\ modSlide = NotParsed
    /\ svcSlide = NotParsed
    /\ IdleShape
    /\ IdlePackage
    /\ IdleStyle

\* modules: parseSingleSlide on the normalized shape tree
ParseSingleSlide ==
    /\ modSlide = NotParsed
    /\ modSlide' = parseSingleSlide(tree)
    /\ UNCHANGED <<tree, svcSlide, shapeVars, pkgVars, styleVars>>

\* services: parseShapeTree on the normalized shape tree and its raw XML
ParseShapeTree ==
    /\ svcSlide = NotParsed
    /\ svcSlide' = [threw |-> FALSE, elements |-> parseShapeTree(tree, tree)]
    /\ UNCHANGED <<tree, modSlide, shapeVars, pkgVars, styleVars>>

NextTree == ParseSingleSlide \/ ParseShapeTree

SpecTree == InitTree /\ [][NextTree]_vars

(***************************************************************************)
(* Packages.  Slide i of a package is the entry ppt/slides/slide<i>.xml,   *)
(* its relationships the entry ppt/slides/_rels/slide<i>.xml.rels; every   *)
(* zip package holds the media files ppt/media/image1.png and image2.png.  *)
(***************************************************************************)
Relationship(id, name) ==
    [Id |-> id, Target |-> [dir |-> "../media", name |-> name]]

SlideFile(spTree, rels, malformed) ==
    [spTree |-> WithIds(spTree), rels |-> rels, malformed |-> malformed]

\* a shape and a picture whose rId1 points at the media file name
PictureSlide(name) ==
    SlideFile(<<PlainShape, Picture>>, <<Relationship("rId1", name)>>, FALSE)
\* a shape and a picture whose rId1 is in no relationship of the slide
NoMediaSlide == SlideFile(<<PlainShape, Picture>>, <<>>, FALSE)
\* one group of a shape and a picture
GroupSlide   == SlideFile(<<Group>>, <<Relationship("rId1", "image1.png")>>, FALSE)
\* a slide whose XML the XML parser rejects
BrokenSlide  == SlideFile(<<>>, <<>>, TRUE)

SlideFiles ==
    {PictureSlide("image1.png"), PictureSlide("image2.png"), NoMediaSlide,
     GroupSlide, BrokenSlide}

MediaFiles == {"image1.png", "image2.png"}

Package(isZip, encrypted, hasPresentationXml, slides) ==
    [isZip |-> isZip, encrypted |-> encrypted,
     hasPresentationXml |-> hasPresentationXml, slides |-> slides]

NotAZip == Package(FALSE, FALSE, FALSE, <<>>)

Packages ==
    {NotAZip} \cup
    {Package(TRUE, e, h, sl) :
        e \in BOOLEAN, h \in BOOLEAN,
        sl \in UNION {[1..n -> SlideFiles] : n \in 0..MaxSlides}}

LogRecord(level, message) == [level |-> level, message |-> message]

RECURSIVE Flatten(_)
Flatten(seqs) == IF seqs = <<>> THEN <<>> ELSE Head(seqs) \o Flatten(Tail(seqs))

(***************************************************************************)
(* services/pptx/unzip.ts                                                  *)
(***************************************************************************)
\* the ExtractedPPTX unzipPPTX resolves with: slides and relationships are
\* keyed by the number in the entry name, media by base name; an entry whose
\* name includes 'Encrypted' only sets metadata.hasEncrypted
unzipPPTX(package) ==
    [slides |-> [i \in 1..Len(package.slides) |->
                    [index |-> i, xml |-> package.slides[i]]],
     relationships |-> [i \in 1..Len(package.slides) |->
                    [index |-> i, xml |-> package.slides[i].rels]],
     media |-> MediaFiles,
     hasEncrypted |-> package.encrypted]

(***************************************************************************)
(* services/pptx/parser.ts: slides                                         *)
(***************************************************************************)
\* parseSlideXML returns for a slide XML the parser accepts
parseSlideXML(xml, slideIndex) ==
    [index |-> slideIndex, elements |-> parseShapeTree(xml.spTree, xml.spTree)]

\* parseAllSlides: a slide whose parse throws is logged and not pushed
RECURSIVE parseAllSlides(_)
parseAllSlides(entries) ==
    IF entries = <<>> THEN <<>>
    ELSE LET index == Head(entries).index
             xml   == Head(entries).xml
         IN  IF xml.malformed THEN parseAllSlides(Tail(entries))
             ELSE <<parseSlideXML(xml, index + 1)>> \o parseAllSlides(Tail(entries))

parseAllSlidesLog(entries) ==
    Flatten([i \in 1..Len(entries) |->
        IF entries[i].xml.malformed
        THEN <<LogRecord("error", "Failed to parse slide XML"),
               LogRecord("error", "Failed to parse slide")>>
        ELSE <<>>])

(***************************************************************************)
(* services/conversion/index.ts: relationship map and conversion context   *)
(***************************************************************************)
\* path.basename
basename(target) == target.name

\* Map.get on a sequence of entries; "" stands for undefined
MapGet(entries, id) ==
    LET hits == SelectSeq(entries, LAMBDA e : e.Id = id)
    IN  IF hits = <<>> THEN "" ELSE hits[Len(hits)].filename

buildRelationshipMap(ex) ==
    [i \in 1..Len(ex.relationships) |->
        [index  |-> ex.relationships[i].index,
         relMap |-> [k \in 1..Len(ex.relationships[i].xml) |->
                       [Id       |-> ex.relationships[i].xml[k].Id,
                        filename |-> basename(ex.relationships[i].xml[k].Target)]]]]

\* relationshipMap.get(slideIndex); an absent map holds no id
RelMapOf(relationshipMap, slideIndex) ==
    LET hits == SelectSeq(relationshipMap, LAMBDA e : e.index = slideIndex)
    IN  IF hits = <<>> THEN <<>> ELSE hits[Len(hits)].relMap

\* (this as any)._currentSlideIndex || 1 inside the arrow function: this is
\* the ConversionService, which has no _currentSlideIndex
ServiceCurrentSlideIndex == 1

\* resolveMediaReference of the context: the media file, "" for null
resolveMediaReference(ctx, ref) ==
    LET own   == MapGet(RelMapOf(ctx.relationshipMap, ServiceCurrentSlideIndex), ref)
        found == SelectSeq(ctx.relationshipMap,
                     LAMBDA e : MapGet(e.relMap, ref) \in ctx.mediaFiles)
    IN  IF own \in ctx.mediaFiles THEN own
        ELSE IF ref \in ctx.mediaFiles THEN ref
        ELSE IF found # <<>> THEN MapGet(found[1].relMap, ref)
        ELSE ""

ConversionContext(mediaFiles, relationshipMap, mediaMap) ==
    [mediaFiles |-> mediaFiles, relationshipMap |-> relationshipMap,
     mediaMap |-> mediaMap, currentSlideIndex |-> 0, warnings |-> <<>>]

\* createConversionContext of the ConversionService
createServiceContext(mediaFiles, relationshipMap) ==
    [ConversionContext(mediaFiles, relationshipMap, <<>>)
        EXCEPT !.currentSlideIndex = 1]

(***************************************************************************)
(* Converted elements.  type "" marks an object without a type property;   *)
(* settled is the value a Promise settles with; zIndex -1 and groupId 0    *)
(* stand for undefined.                                                    *)
(***************************************************************************)
TargetElement(type, id, zIndex, src) ==
    [type |-> type, id |-> id, zIndex |-> zIndex, src |-> src, groupId |-> 0,
     settled |-> <<>>]

PromiseOf(value) ==
    [type |-> "", id |-> 0, zIndex |-> -1, src |-> "", groupId |-> 0,
     settled |-> value]

TargetSlide(id, elements) == [id |-> id, elements |-> elements]

(***************************************************************************)
(* services/conversion/converters and the ConversionOrchestrator           *)
(***************************************************************************)
\* ImageConverter.resolveImageSource: the source of the image, '' when the
\* reference is absent or does not resolve
resolveImageSource(element, ctx) ==
    IF element.imageRef = "" THEN ""
    ELSE resolveMediaReference(ctx, element.imageRef)

resolveImageSourceLog(element, ctx) ==
    IF element.imageRef = ""
    THEN <<LogRecord("warn", "Image element has no imageRef")>>
    ELSE IF resolveMediaReference(ctx, element.imageRef) = ""
    THEN <<LogRecord("warn", "Failed to resolve media reference"),
           LogRecord("warn", "Failed to resolve image reference")>>
    ELSE <<>>

\* ImageConverter.convert always returns an image element
ImageConverter(element, ctx) ==
    TargetElement("image", element.id, element.zIndex, resolveImageSource(element, ctx))

ShapeConverter(element, ctx) ==
    TargetElement("shape", element.id, element.zIndex, "")

\* convertElement: the converter the registry holds for the type of the
\* element, null when there is none
convertElement(element, ctx) ==
    CASE element.type = "image" -> ImageConverter(element, ctx)
      [] element.type = "shape" -> ShapeConverter(element, ctx)
      [] OTHER                  -> Null

convertElementLog(element, ctx) ==
    CASE element.type = "image" -> resolveImageSourceLog(element, ctx)
      [] element.type = "shape" -> <<>>
      [] OTHER -> <<LogRecord("warn", "No converter found for element type")>>

convertElements(elements, ctx) ==
    NonNull([i \in 1..Len(elements) |-> convertElement(elements[i], ctx)])

\* convertGroup: the converted children, each with groupId = group.id
convertGroup(group, ctx) ==
    LET convertedChildren == convertElements(group.elements, ctx)
    IN  [i \in 1..Len(convertedChildren) |->
            [convertedChildren[i] EXCEPT !.groupId = group.id]]

\* convertElementsWithGroups calls the async convertGroup without await and
\* pushes what the call returns, a Promise
convertElementsWithGroups(elements, ctx) ==
    NonNull([i \in 1..Len(elements) |->
        IF elements[i].type = "group"
        THEN PromiseOf(convertGroup(elements[i], ctx))
        ELSE convertElement(elements[i], ctx)])

convertElementsWithGroupsLog(elements, ctx) ==
    Flatten([i \in 1..Len(elements) |->
        IF elements[i].type = "group"
        THEN Flatten([k \in 1..Len(elements[i].elements) |->
                        convertElementLog(elements[i].elements[k], ctx)])
        ELSE convertElementLog(elements[i], ctx)])

\* a.zIndex ?? 0
zIndexOrZero(element) == IF element.zIndex = -1 THEN 0 ELSE element.zIndex

\* Array.prototype.sort with (a, b) => zIndexA - zIndexB: stable
RECURSIVE sortFrom(_, _)
sortFrom(elements, z) ==
    IF \A i \in 1..Len(elements) : zIndexOrZero(elements[i]) < z THEN <<>>
    ELSE SelectSeq(elements, LAMBDA e : zIndexOrZero(e) = z)
            \o sortFrom(elements, z + 1)

sortElementsByZIndex(elements) == sortFrom(elements, 0)

\* convertSlide of the orchestrator, with processGroups and preserveZIndex
orchestratorConvertSlide(parsedSlide, ctx) ==
    TargetSlide(parsedSlide.index,
        sortElementsByZIndex(convertElementsWithGroups(parsedSlide.elements, ctx)))

orchestratorConvertSlides(parsedSlides, ctx) ==
    [i \in 1..Len(parsedSlides) |-> orchestratorConvertSlide(parsedSlides[i], ctx)]

orchestratorConvertSlidesLog(parsedSlides, ctx) ==
    Flatten([i \in 1..Len(parsedSlides) |->
        convertElementsWithGroupsLog(parsedSlides[i].elements, ctx)])

(***************************************************************************)
(* services/conversion/pptist-serializer.ts                                *)
(***************************************************************************)
convertSlideElement(element) ==
    IF element.type = "" THEN Null
    ELSE IF element.type \in {"shape", "text", "image", "line"} THEN element
    ELSE Null

serializeToPPTistFormat(slides) ==
    [i \in 1..Len(slides) |->
        TargetSlide(slides[i].id,
            NonNull([k \in 1..Len(slides[i].elements) |->
                        convertSlideElement(slides[i].elements[k])]))]

(***************************************************************************)
(* modules/conversion/services/parser: parsePPTX                           *)
(***************************************************************************)
\* parseSlideRels(zip, slideNum): rId -> target of the media relationships
\* in ppt/slides/_rels/slide<slideNum>.xml.rels, the leading ../ removed
parseSlideRels(package, slideNum) ==
    IF slideNum \notin 1..Len(package.slides) THEN <<>>
    ELSE LET rels == package.slides[slideNum].rels
         IN  [k \in 1..Len(rels) |->
                 [rId |-> rels[k].Id,
                  target |-> [dir |-> "media", name |-> rels[k].Target.name]]]

\* the rId -> media map parsePPTX pushes for one slide; the media id is
\* the target without 'media/'
slideRIdToMedia(package, slideNum) ==
    LET rIdToTarget == parseSlideRels(package, slideNum)
        known == SelectSeq(rIdToTarget, LAMBDA r : r.target.name \in MediaFiles)
    IN  [k \in 1..Len(known) |-> [rId |-> known[k].rId, media |-> known[k].target.name]]

Rejected(code, error) ==
    [rejected |-> TRUE, code |-> code, error |-> error, slides |-> <<>>,
     slideMediaMaps |-> <<>>]

\* parsePPTX: the error it rejects with or the presentation it resolves
\* with.  There is no try/catch in the slide loop: the first slide whose
\* parse throws rejects the whole call with the error as thrown.
parsePPTX(package) ==
    IF ~package.isZip
        THEN Rejected("", "Can't find end of central directory")
    ELSE IF package.encrypted
        THEN Rejected("ERR_PROTECTED_FILE", "protected file")
    ELSE IF ~package.hasPresentationXml
        THEN Rejected("ERR_CORRUPTED_FILE", "corrupted file")
    ELSE IF \E i \in 1..Len(package.slides) :
                \/ package.slides[i].malformed
                \/ parseSingleSlide(package.slides[i].spTree).threw
        THEN Rejected("", "slide parse error")
    ELSE [rejected |-> FALSE, code |-> "", error |-> "",
          slides |-> [i \in 1..Len(package.slides) |->
                        [id |-> i,
                         elements |-> parseSingleSlide(package.slides[i].spTree).elements]],
          slideMediaMaps |-> [i \in 1..Len(package.slides) |->
                                slideRIdToMedia(package, i)]]

(***************************************************************************)
(* modules/conversion/services/converter.ts                                *)
(***************************************************************************)
createConversionContext == ConversionContext({}, <<>>, <<>>)

\* processMedia: one entry per slide and rId under the key
\* `${slideIndex}_${rId}`, slideIndex counting from 0
processMedia(presentation) ==
    Flatten([i \in 1..Len(presentation.slideMediaMaps) |->
        [k \in 1..Len(presentation.slideMediaMaps[i]) |->
            [key  |-> <<i - 1, presentation.slideMediaMaps[i][k].rId>>,
             data |-> presentation.slideMediaMaps[i][k].media]]])

\* context.mediaMap.get(key); "" stands for undefined
mediaMapGet(mediaMap, key) ==
    LET hits == SelectSeq(mediaMap, LAMBDA e : e.key = key)
    IN  IF hits = <<>> THEN "" ELSE hits[Len(hits)].data

\* convertShape gives the element a new id (uuidv4)
convertShape(element) == TargetElement("shape", 2000 + element.id, -1, "")

\* the image converter: the media under `${currentSlideIndex}_${rId}`; an
\* image whose reference does not resolve is left out with a warning
convertImage(element, ctx) ==
    LET media == mediaMapGet(ctx.mediaMap, <<ctx.currentSlideIndex, element.rId>>)
    IN  IF media = "" THEN Null
        ELSE TargetElement("image", 2000 + element.id, -1, media)

convertImageWarnings(element, ctx) ==
    IF mediaMapGet(ctx.mediaMap, <<ctx.currentSlideIndex, element.rId>>) = ""
    THEN <<"failed to resolve media reference">> ELSE <<>>

convertPPTXElement(element, ctx) ==
    CASE element.type = "shape" -> convertShape(element)
      [] element.type = "image" -> convertImage(element, ctx)
      [] OTHER                  -> Null

\* convertSlide(pptxSlide, slideIndex, context)
convertSlide(pptxSlide, slideIndex, ctx) ==
    TargetSlide(slideIndex + 1,
        NonNull([k \in 1..Len(pptxSlide.elements) |->
                    convertPPTXElement(pptxSlide.elements[k], ctx)]))

convertSlideWarnings(pptxSlide, ctx) ==
    Flatten([k \in 1..Len(pptxSlide.elements) |->
        IF pptxSlide.elements[k].type = "image"
        THEN convertImageWarnings(pptxSlide.elements[k], ctx) ELSE <<>>])

\* convertSlides sets context.currentSlideIndex = i before slide i
convertSlides(presentation, ctx) ==
    [i \in 1..Len(presentation.slides) |->
        convertSlide(presentation.slides[i], i - 1,
                     [ctx EXCEPT !.currentSlideIndex = i - 1])]

convertSlidesWarnings(presentation, ctx) ==
    Flatten([i \in 1..Len(presentation.slides) |->
        convertSlideWarnings(presentation.slides[i],
                             [ctx EXCEPT !.currentSlideIndex = i - 1])])

(***************************************************************************)
(* Spec: one package through one of the two pipelines.                     *)
(*   services: ConversionService.convert = ValidatePPTXFile, UnzipPPTX,    *)
(*             OrchestratorConvert, ReturnResult; an error thrown in any   *)
(*             step lands in the catch of convert                          *)
(*   modules:  ParsePPTX, ProcessMedia, ConvertSlides                      *)
(***************************************************************************)
ConversionResult(success, code, error, slides, warnings) ==
    [success |-> success, code |-> code, error |-> error, slides |-> slides,
     warnings |-> warnings]

Init ==
    /\ pkg \in Packages
    /\ pipeline \in {"modules", "services"}
    /\ skipValidation \in BOOLEAN
    /\ pipeline = "modules" => skipValidation = FALSE
    /\ pc = IF pipeline = "services" THEN "validate" ELSE "parse"
    /\ extracted = NotParsed
    /\ parsed = NotParsed
    /\ context = NotParsed
    /\ output = <<>>
    /\ log = <<>>
    /\ result = NotParsed
    /\ IdleShape
    /\ IdleTree
    /\ IdleStyle

\* the catch of ConversionService.convert: the error is logged and the
\* caller receives { success: false, error: <message> }; the returned object
\* has no code property
CatchInConvert(message, logged) ==
    /\ result' = ConversionResult(FALSE, "", message, <<>>, <<>>)
    /\ log' = log \o logged \o <<LogRecord("error", "PPTX conversion failed")>>
    /\ pc' = "done"

\* validatePPTXFile: the errors it reports for a package
validatePPTXFile(package) ==
    IF ~package.isZip THEN <<"not a zip archive">>
    ELSE IF package.encrypted THEN <<"encrypted">>
    ELSE <<>>

ValidationMessage(errors) ==
    IF errors = <<"encrypted">> THEN "Invalid PPTX file: encrypted"
    ELSE "Invalid PPTX file: not a zip archive"

ValidatePPTXFile ==
    /\ pipeline = "services"
    /\ pc = "validate"
    /\ IF skipValidation
       THEN /\ log' = Append(log, LogRecord("info", "Skipping PPTX validation"))
            /\ pc' = "unzip"
            /\ UNCHANGED result
       ELSE IF validatePPTXFile(pkg) = <<>>
       THEN /\ pc' = "unzip"
            /\ UNCHANGED <<log, result>>
       ELSE CatchInConvert(ValidationMessage(validatePPTXFile(pkg)), <<>>)
    /\ UNCHANGED <<pkg, pipeline, skipValidation, extracted, parsed, context, output>>
    /\ UNCHANGED <<shapeVars, treeVars, styleVars>>

UnzipPPTX ==
    /\ pipeline = "services"
    /\ pc = "unzip"
    /\ IF ~pkg.isZip
       THEN /\ CatchInConvert("Failed to open PPTX file",
                   <<LogRecord("error", "Failed to open PPTX file")>>)
            /\ UNCHANGED extracted
       ELSE /\ extracted' = unzipPPTX(pkg)
            /\ log' = log \o
                   (IF pkg.encrypted
                    THEN <<LogRecord("warn", "Detected encrypted content in PPTX")>>
                    ELSE <<>>)
            /\ pc' = "convert"
            /\ UNCHANGED result
    /\ UNCHANGED <<pkg, pipeline, skipValidation, parsed, context, output>>
    /\ UNCHANGED <<shapeVars, treeVars, styleVars>>

\* extractMediaFiles: the media files by file name
extractMediaFiles(ex) == ex.media

\* steps 3 to 6 of convert: media files, relationship map, context, and
\* orchestrator.convert = parseAllSlides followed by convertSlides
OrchestratorConvert ==
    /\ pipeline = "services"
    /\ pc = "convert"
    /\ LET ctx == createServiceContext(extractMediaFiles(extracted),
                                       buildRelationshipMap(extracted))
           parsedSlides == parseAllSlides(extracted.slides)
       IN  /\ parsed' = parsedSlides
           /\ output' = orchestratorConvertSlides(parsedSlides, ctx)
           /\ context' = [ctx EXCEPT !.currentSlideIndex =
                             IF parsedSlides = <<>> THEN 1
                             ELSE parsedSlides[Len(parsedSlides)].index]
           /\ log' = log \o parseAllSlidesLog(extracted.slides)
                         \o orchestratorConvertSlidesLog(parsedSlides, ctx)
    /\ pc' = "serialize"
    /\ UNCHANGED <<pkg, pipeline, skipValidation, extracted, result>>
    /\ UNCHANGED <<shapeVars, treeVars, styleVars>>

\* collectWarnings(extracted, validationResult.warnings)
collectWarnings(ex) == <<>>

\* steps 7 to 10 of convert
ReturnResult ==
    /\ pipeline = "services"
    /\ pc = "serialize"
    /\ result' = ConversionResult(TRUE, "", "", serializeToPPTistFormat(output),
                                  collectWarnings(extracted))
    /\ pc' = "done"
    /\ UNCHANGED <<pkg, pipeline, skipValidation, extracted, parsed, context,
                   output, log>>
    /\ UNCHANGED <<shapeVars, treeVars, styleVars>>

ParsePPTX ==
    /\ pipeline = "modules"
    /\ pc = "parse"
    /\ LET presentation == parsePPTX(pkg)
       IN  IF presentation.rejected
           THEN /\ result' = ConversionResult(FALSE, presentation.code,
                                              presentation.error, <<>>, <<>>)
                /\ pc' = "done"
                /\ UNCHANGED parsed
           ELSE /\ parsed' = presentation
                /\ pc' = "media"
                /\ UNCHANGED result
    /\ UNCHANGED <<pkg, pipeline, skipValidation, extracted, context, output, log>>
    /\ UNCHANGED <<shapeVars, treeVars, styleVars>>

ProcessMedia ==
    /\ pipeline = "modules"
    /\ pc = "media"
    /\ context' = [createConversionContext EXCEPT !.mediaMap = processMedia(parsed)]
    /\ pc' = "convert"
    /\ UNCHANGED <<pkg, pipeline, skipValidation, extracted, parsed, output, log,
                   result>>
    /\ UNCHANGED <<shapeVars, treeVars, styleVars>>

ConvertSlides ==
    /\ pipeline = "modules"
    /\ pc = "convert"
    /\ output' = convertSlides(parsed, context)
    /\ context' = [context EXCEPT
                      !.warnings = convertSlidesWarnings(parsed, context),
                      !.currentSlideIndex =
                          IF parsed.slides = <<>> THEN 0 ELSE Len(parsed.slides) - 1]
    /\ result' = ConversionResult(TRUE, "", "", output', context'.warnings)
    /\ pc' = "done"
    /\ UNCHANGED <<pkg, pipeline, skipValidation, extracted, parsed, log>>
    /\ UNCHANGED <<shapeVars, treeVars, styleVars>>

Next ==
    \/ ValidatePPTXFile
    \/ UnzipPPTX
    \/ OrchestratorConvert
    \/ ReturnResult
    \/ ParsePPTX
    \/ ProcessMedia
    \/ ConvertSlides

Spec == Init /\ [][Next]_vars

(***************************************************************************)
(* Properties of SpecShape and SpecTree.                                   *)
(***************************************************************************)
NonWhitespace(text) == trim(text) # <<>>

HasNonWhitespaceRun(shape) ==
    /\ shape.hasTxBody
    /\ \E p \in 1..Len(shape.txBody) : \E r \in 1..Len(shape.txBody[p]) :
           NonWhitespace(shape.txBody[p][r])

\* C8: a shape element is classified as Text if and only if its text body
\* holds at least one run with non-whitespace text.
C8_TextIffNonWhitespaceRun ==
    shapeOut # NotParsed =>
        (shapeOut.type = "text" <=> HasNonWhitespaceRun(shapeIn))

\* the position in the document of the source element of a parsed element
DocumentPosition(element) ==
    IF element.id >= 1000 THEN element.id - 1000 ELSE element.id

InDocumentOrder(elements) ==
    \A i, j \in 1..Len(elements) :
        i < j => DocumentPosition(elements[i]) < DocumentPosition(elements[j])

\* C1: the parsed element list of a slide is in the document order of the
\* children of the shape tree, in either pipeline.
C1_ParsedInDocumentOrder ==
    /\ (modSlide # NotParsed /\ ~modSlide.threw) => InDocumentOrder(modSlide.elements)
    /\ svcSlide # NotParsed => InDocumentOrder(svcSlide.elements)

\* C5: an element whose parser throws does not end the parse of its slide:
\* the slide parser returns, the element is left out and every sibling that
\* parses is kept.
C5_ElementFailureContained ==
    modSlide # NotParsed =>
        /\ ~modSlide.threw
        /\ \A i \in 1..Len(tree) :
               (HasParser(tree[i].tag) /\ ~tree[i].malformed)
                   <=> \E k \in 1..Len(modSlide.elements) : modSlide.elements[k].id = i

(***************************************************************************)
(* Properties of Spec.                                                     *)
(***************************************************************************)
Done == pc = "done"

\* a package with none of the fatal defects: a zip archive, not encrypted,
\* with its ppt/presentation.xml
FatalFree(package) ==
    package.isZip /\ ~package.encrypted /\ package.hasPresentationXml

Types(elements) == [k \in 1..Len(elements) |-> elements[k].type]

\* C2: when slides use the same relationship id for different media files,
\* the picture of each slide is converted with the media of its own slide.
C2_OwnSlideMedia ==
    (Done /\ result.success /\ Len(result.slides) = Len(pkg.slides)) =>
        \A i \in 1..Len(pkg.slides) : \A name \in MediaFiles :
            pkg.slides[i] = PictureSlide(name) =>
                \A k \in 1..Len(result.slides[i].elements) :
                    result.slides[i].elements[k].type = "image"
                        => result.slides[i].elements[k].src = name

\* the numbers of the slides of a package whose XML parses
GoodSlideNumbers(package) ==
    SelectSeq([i \in 1..Len(package.slides) |-> i],
              LAMBDA i : ~package.slides[i].malformed)

\* the number of the slide file a converted slide came from
SlideNumber(slide) == IF pipeline = "services" THEN slide.id - 1 ELSE slide.id

\* C3: a slide whose parse fails does not abort the conversion: the
\* conversion succeeds and every other slide is in the result, in order.
C3_SlideFailureDoesNotAbort ==
    (Done /\ FatalFree(pkg)) =>
        /\ result.success
        /\ SelectSeq([k \in 1..Len(result.slides) |-> SlideNumber(result.slides[k])],
                     LAMBDA n : n \in 1..Len(pkg.slides) /\ ~pkg.slides[n].malformed)
               = GoodSlideNumbers(pkg)

\* C4: a slide whose parse fails is in the result as a slide with no
\* elements, and a warning is recorded for it.
C4_FailedSlideKeptEmpty ==
    (Done /\ FatalFree(pkg)) =>
        /\ result.success
        /\ Len(result.slides) = Len(pkg.slides)
        /\ \A i \in 1..Len(pkg.slides) :
               pkg.slides[i].malformed => result.slides[i].elements = <<>>
        /\ Len(result.warnings) >=
               Cardinality({i \in 1..Len(pkg.slides) : pkg.slides[i].malformed})

ProtectedFileError(r) ==
    ~r.success /\ (r.code = "ERR_PROTECTED_FILE" \/ r.error = "Invalid PPTX file: encrypted")

\* C6: a package with an EncryptedPackage entry fails with the protected-file
\* error: no slide is parsed and no presentation is returned.
C6_EncryptedFailsFast ==
    (pkg.isZip /\ pkg.encrypted) =>
        /\ parsed = NotParsed
        /\ Done => ProtectedFileError(result)

\* C7: a fatal failure (not a zip archive, encrypted, ppt/presentation.xml
\* missing) reaches the caller as a failure that carries an error code.
C7_FatalFailureCarriesCode ==
    (Done /\ ~FatalFree(pkg)) => (~result.success /\ result.code # "")

\* C9: a slide of one non-text shape and one picture whose relationship id
\* resolves to no media converts to the shape alone, with exactly one
\* 'failed to resolve media reference' warning.
C9_UnresolvedPictureOmitted ==
    (Done /\ FatalFree(pkg) /\ pkg.slides = <<NoMediaSlide>>) =>
        /\ result.success
        /\ Len(result.slides) = 1
        /\ Types(result.slides[1].elements) = <<"shape">>
        /\ Len(SelectSeq(result.warnings,
                         LAMBDA w : w = "failed to resolve media reference")) = 1

\* C10: the element list of a converted slide holds, for a group, the
\* converted children themselves, each with the id of the group as groupId,
\* and no container.
C10_GroupFlattened ==
    (Done /\ result.success /\ Len(output) = Len(pkg.slides)) =>
        \A i \in 1..Len(pkg.slides) :
            pkg.slides[i] = GroupSlide =>
                LET es == output[i].elements
                IN  /\ Types(es) = <<"shape", "image">>
                    /\ \A k \in 1..Len(es) : es[k].groupId # 0 /\ es[k].groupId = es[1].groupId

(***************************************************************************)
(* Properties of the group parser (SpecTree).                              *)
(***************************************************************************)
\* what the group parser owes for a raw group: a Group element whose child
\* list follows the children of the group in document order, a group among
\* them parsed the same way
RECURSIVE ExpectedChildren(_)
ExpectedChildren(children) ==
    [j \in 1..Len(children) |->
        [position |-> children[j].id,
         group    |-> children[j].tag = "p:grpSp",
         children |-> ExpectedChildren(children[j].children)]]

\* the child list a parsed Group element carries, in the same shape
RECURSIVE ParsedChildren(_)
ParsedChildren(elements) ==
    [j \in 1..Len(elements) |->
        [position |-> DocumentPosition(elements[j]),
         group    |-> elements[j].type = "group",
         children |-> ParsedChildren(elements[j].elements)]]

\* C11: for every group of a shape tree the parsed slide holds a Group
\* element whose child list has every child of the group, children of nested
\* groups included, in document order.
C11_GroupChildrenInDocumentOrder ==
    svcSlide # NotParsed =>
        \A i \in 1..Len(tree) :
            (tree[i].tag = "p:grpSp" /\ ~tree[i].malformed) =>
                \E k \in 1..Len(svcSlide.elements) :
                    /\ svcSlide.elements[k].type = "group"
                    /\ DocumentPosition(svcSlide.elements[k]) = i
                    /\ ParsedChildren(svcSlide.elements[k].elements)
                           = ExpectedChildren(tree[i].children)

\* The problems met while slides and elements are processed: the warn and
\* error records the parsers and converters write.
ProcessingProblems ==
    SelectSeq(log, LAMBDA r : r.message \in {"Failed to parse slide",
                                             "Failed to resolve media reference",
                                             "Image element has no imageRef",
                                             "No converter found for element type"})

\* C12: a successful result carries a warnings array next to the slides, and
\* every problem met while slides and elements were processed is present in
\* it as a warning.
C12_WarningsDelivered ==
    (Done /\ result.success) => Len(result.warnings) >= Len(ProcessingProblems)

(***************************************************************************)
(* Colours.  A colour value is the RGB triple a hex string names, with an  *)
(* alpha in percent (the fourth byte of an 8-digit hex; 100 when the hex   *)
(* has six digits).  The empty string '' is NoColor.  HSL values are kept  *)
(* as integers: hue in degrees, saturation and lightness in 1/1000.        *)
(***************************************************************************)
Rgb(r, g, b) == [r |-> r, g |-> g, b |-> b, a |-> 100]

NoColor == [r |-> -1, g |-> -1, b |-> -1, a |-> -1]

Black == Rgb(0, 0, 0)

\* the hex strings of the model and the colours tinycolor reads from them
HexValues == {"FF0000", "336699", "C0C0C0"}

tinycolor(hex) ==
    CASE hex = "FF0000" -> Rgb(255, 0, 0)
      [] hex = "336699" -> Rgb(51, 102, 153)
      [] hex = "C0C0C0" -> Rgb(192, 192, 192)
      [] hex = "FFFFFF" -> Rgb(255, 255, 255)
      [] hex = "4472C4" -> Rgb(68, 114, 196)
      [] hex = "4F81BD" -> Rgb(79, 129, 189)
      [] hex = "000000" -> Black
      [] OTHER -> Black

Max2(x, y) == IF x >= y THEN x ELSE y

Min2(x, y) == IF x <= y THEN x ELSE y

\* tinycolor(...).toHsl()
toHsl(c) ==
    CHOOSE hsl \in
        {[h |-> IF mx = mn THEN 0
                ELSE IF mx = c.r THEN (((60 * (c.g - c.b)) \div (mx - mn)) + 360) % 360
                ELSE IF mx = c.g THEN ((60 * (c.b - c.r)) \div (mx - mn)) + 120
                ELSE ((60 * (c.r - c.g)) \div (mx - mn)) + 240,
          s |-> IF mx = mn THEN 0
                ELSE IF mx + mn > 255 THEN (1000 * (mx - mn)) \div (510 - (mx + mn))
                ELSE (1000 * (mx - mn)) \div (mx + mn),
          l |-> (1000 * (mx + mn)) \div 510,
          a |-> c.a] :
            mx \in {Max2(c.r, Max2(c.g, c.b))},
            mn \in {Min2(c.r, Min2(c.g, c.b))}} : TRUE

\* tinycolor's hue2rgb, the hue in degrees
hueToRgb(p, q, t) ==
    IF (t + 360) % 360 < 60 THEN p + (((q - p) * ((t + 360) % 360)) \div 60)
    ELSE IF (t + 360) % 360 < 180 THEN q
    ELSE IF (t + 360) % 360 < 240 THEN p + (((q - p) * (240 - ((t + 360) % 360))) \div 60)
    ELSE p

\* tinycolor({h, s, l, a}): the inputs are clamped to their ranges
fromHsl(hsl) ==
    LET byte(v) == (v * 255 + 500) \div 1000
        q(s, l) == IF l < 500 THEN (l * (1000 + s)) \div 1000
                   ELSE l + s - ((l * s) \div 1000)
    IN  CHOOSE rgb \in
            UNION {{[r |-> byte(hueToRgb(2 * l - t2, t2, h + 120)),
                     g |-> byte(hueToRgb(2 * l - t2, t2, h)),
                     b |-> byte(hueToRgb(2 * l - t2, t2, h - 120)),
                     a |-> x.a] : t2 \in {q(s, l)}} :
                      x \in {hsl},
                      h \in {IF hsl.h >= 360 \/ hsl.h < 0 THEN 0 ELSE hsl.h},
                      s \in {Max2(0, Min2(1000, hsl.s))},
                      l \in {Max2(0, Min2(1000, hsl.l))}} : TRUE

\* toHex8() keeps the alpha, toHex() drops it
toHexOrHex8(c, hasAlpha) == IF hasAlpha THEN c ELSE [c EXCEPT !.a = 100]

\* applyHueMod, applyLumMod, applyLumOff, applySatMod, applyShade and
\* applyTint: each reads the HSL of the colour it is given, changes one
\* component and writes the hex back.  The amounts are fractions in 1/1000.
applyModifier(name, hexColor, value, hasAlpha) ==
    LET capped == Min2(value, 1000)
        newH(color) == (color.h * value) \div 1000
        newColor(color) ==
            CASE name = "a:hueMod" ->
                     [color EXCEPT !.h = IF newH(color) >= 360 THEN newH(color) - 360
                                         ELSE newH(color)]
              [] name = "a:lumMod" ->
                     [color EXCEPT !.l = Min2((color.l * value) \div 1000, 1000)]
              [] name = "a:lumOff" ->
                     [color EXCEPT !.l = Min2(value + color.l, 1000)]
              [] name = "a:satMod" ->
                     [color EXCEPT !.s = Min2((color.s * value) \div 1000, 1000)]
              [] name = "a:shade" ->
                     [color EXCEPT !.l = Min2((color.l * capped) \div 1000, 1000)]
              [] name = "a:tint" ->
                     [color EXCEPT !.l = ((color.l * capped) \div 1000) + (1000 - capped)]
    IN  CHOOSE hex \in {toHexOrHex8(fromHsl(n), hasAlpha) :
                           n \in {newColor(color) : color \in {toHsl(hexColor)}}} : TRUE

(***************************************************************************)
(* Colour nodes.  A node is the child of a:solidFill: its tag, its val (or *)
(* lastClr) attribute and its modifier children in document order, each    *)
(* with a val in 1/1000 of a percent.                                      *)
(***************************************************************************)
ColorNode(tag, val, modifiers) == [tag |-> tag, val |-> val, modifiers |-> modifiers]

Modifier(name, val) == [name |-> name, val |-> val]

\* parseInt(getTextByPathList(clrNode, [name, 'attrs', 'val']) || '') / 100000
\* as a fraction in 1/1000; NaN is -1
modifierValue(clrNode, name) ==
    LET found == SelectSeq(clrNode.modifiers, LAMBDA m : m.name = name)
    IN  IF found = <<>> THEN -1 ELSE found[1].val \div 100

\* the a:clrScheme of the theme: the hex of a:srgbClr/@val or a:sysClr/@lastClr
themeContent(name) ==
    CASE name = "a:dk1" -> "000000"
      [] name = "a:lt1" -> "FFFFFF"
      [] name = "a:dk2" -> "336699"
      [] name = "a:lt2" -> "C0C0C0"
      [] name = "a:accent1" -> "FF0000"
      [] OTHER -> ""

\* the attributes of an a:overrideClrMapping or p:clrMap element
ColorMapOverride(map) ==
    CASE map = "standard" -> [bg1 |-> "lt1", tx1 |-> "dk1", bg2 |-> "lt2", tx2 |-> "dk2"]
      [] map = "inverted" -> [bg1 |-> "dk1", tx1 |-> "lt1", bg2 |-> "dk2", tx2 |-> "lt2"]

\* the slide's and the layout's override and the master's map; "" is none
ParsingContext(slide, layout, master) ==
    [slideContent |-> slide, slideLayoutContent |-> layout, slideMasterContent |-> master]

\* the lookup with the layout's override consulted before the slide's
getSchemeColorLayoutFirst(schemeClr, ctx) ==
    LET override ==
            IF ctx.slideLayoutContent # "" THEN ctx.slideLayoutContent
            ELSE IF ctx.slideContent # "" THEN ctx.slideContent
            ELSE ctx.slideMasterContent
        name == SubSeq(schemeClr, 3, Len(schemeClr))
    IN  themeContent(IF override # "" /\ name \in {"tx1", "tx2", "bg1", "bg2"}
                     THEN "a:" \o ColorMapOverride(override)[name]
                     ELSE schemeClr)

\* color-resolver.ts, called without clrMap and phClr
getSchemeColorFromTheme(schemeClr, ctx) ==
    LET slideLayoutClrOvride ==
            IF ctx.slideContent # "" THEN ctx.slideContent
            ELSE IF ctx.slideLayoutContent # "" THEN ctx.slideLayoutContent
            ELSE ctx.slideMasterContent
        schmClrName == SubSeq(schemeClr, 3, Len(schemeClr))
        mappedSchemeClr ==
            IF slideLayoutClrOvride # ""
            THEN IF schmClrName \in {"tx1", "tx2", "bg1", "bg2"}
                 THEN "a:" \o ColorMapOverride(slideLayoutClrOvride)[schmClrName]
                 ELSE schemeClr
            ELSE \* the default mapping compares the prefixed name with 'tx1', ...
                 CASE schemeClr = "tx1" -> "a:dk1"
                   [] schemeClr = "tx2" -> "a:dk2"
                   [] schemeClr = "bg1" -> "a:lt1"
                   [] schemeClr = "bg2" -> "a:lt2"
                   [] OTHER -> schemeClr
    IN  themeContent(mappedSchemeClr)

\* the table of color-resolver.ts, its keys in lower case; "" is undefined
PRESET_COLORS(name) ==
    CASE name = "red" -> "FF0000"
      [] name = "silver" -> "C0C0C0"
      [] OTHER -> ""

\* a hex string as a colour value; '' stays the empty colour
HexColor(hex) == IF hex = "" THEN NoColor ELSE tinycolor(hex)

\* color-resolver.ts: the base colour of the node, no modifier applied
parseBaseColor(solidFill, ctx) ==
    [color |->
        CASE solidFill.tag = "a:srgbClr" -> solidFill.val
          [] solidFill.tag = "a:schemeClr" ->
                 getSchemeColorFromTheme("a:" \o solidFill.val, ctx)
          [] solidFill.tag = "a:prstClr" ->
                 IF PRESET_COLORS(solidFill.val) # ""
                 THEN PRESET_COLORS(solidFill.val) ELSE "000000"
          [] solidFill.tag = "a:sysClr" -> solidFill.val
          [] OTHER -> "",
     clrNode |-> solidFill]

\* color-resolver.ts: alpha first, then one step per modifier that is present
applyColorModifiers(color, clrNode, mergeAlpha) ==
    LET alphaValue == modifierValue(clrNode, "a:alpha")
        hasAlpha   == alphaValue # -1 /\ mergeAlpha
        step(c, name) ==
            IF modifierValue(clrNode, name) # -1
            THEN applyModifier(name, c, modifierValue(clrNode, name), hasAlpha)
            ELSE c
        c0 == IF hasAlpha THEN [HexColor(color) EXCEPT !.a = alphaValue \div 10]
              ELSE HexColor(color)
        \* resultColor after each of the six steps, in the order of the code
        c1 == {step(c0, "a:hueMod")}
        c2 == {step(c, "a:lumMod") : c \in c1}
        c3 == {step(c, "a:lumOff") : c \in c2}
        c4 == {step(c, "a:satMod") : c \in c3}
        c5 == {step(c, "a:shade") : c \in c4}
        c6 == {step(c, "a:tint") : c \in c5}
    IN  [color |-> CHOOSE c \in c6 : TRUE,
         alpha |-> IF alphaValue # -1 /\ ~mergeAlpha THEN alphaValue ELSE -1]

\* color-resolver.ts: the colour and, apart from it, the alpha (-1: undefined)
resolveSolidFillWithAlpha(solidFill, ctx) ==
    LET base == parseBaseColor(solidFill, ctx)
    IN  IF base.color # ""
        THEN applyColorModifiers(base.color, base.clrNode, FALSE)
        ELSE [color |-> NoColor, alpha |-> -1]

\* color-resolver.ts: the colour with the alpha merged into it
resolveSolidFill(solidFill, ctx) ==
    LET base == parseBaseColor(solidFill, ctx)
    IN  IF base.color # ""
        THEN applyColorModifiers(base.color, base.clrNode, TRUE).color
        ELSE NoColor

\* What a resolver hands on: the colour, the opacity next to it (-1 when the
\* field is absent, else in 1/1000), whether the element has a fill at all,
\* the base colour the modifiers started from, and the fill of the converted
\* element with its alpha suffix (-1: a six-digit hex).  No resolver takes
\* or returns a warning collector: the warnings of a resolution are none.
Resolved(by, base, color, opacity, hasFill, suffix) ==
    [by |-> by, base |-> base, color |-> color, opacity |-> opacity,
     hasFill |-> hasFill, suffix |-> suffix, warnings |-> <<>>]

\* modules: the fill of parseShape (elements/shape.ts) and of convertShape
parseShapeFill(solidFill, ctx) ==
    LET fillResult  == resolveSolidFillWithAlpha(solidFill, ctx)
        fill        == fillResult.color
        fillOpacity == fillResult.alpha
        finalFill   == IF fill # NoColor THEN fill ELSE tinycolor("FFFFFF")
    IN  Resolved("modules", HexColor(parseBaseColor(solidFill, ctx).color),
                 finalFill, fillOpacity, TRUE,
                 IF fillOpacity # -1 THEN (fillOpacity * 255 + 500) \div 1000 ELSE -1)

\* the raw val of a modifier child, as parser.ts and utils/color read it
\* (-1: no such child)
rawModifier(clrNode, name) ==
    LET found == SelectSeq(clrNode.modifiers, LAMBDA m : m.name = name)
    IN  IF found = <<>> THEN -1 ELSE found[1].val

\* services/pptx/parser.ts: the colour and, when below 1, the opacity
parseColor(colorFill) ==
    LET color ==
            CASE colorFill.tag \in {"a:srgbClr", "a:sysClr"} -> colorFill.val
              [] colorFill.tag = "a:schemeClr" ->
                     CASE colorFill.val = "dk1" -> "000000"
                       [] colorFill.val = "lt1" -> "FFFFFF"
                       [] colorFill.val = "accent1" -> "4472C4"
                       [] OTHER -> "000000"
              [] OTHER -> ""
        alpha == rawModifier(colorFill, "a:alpha")
        opacity == IF color # "" /\ alpha # -1 THEN 1000 - (alpha \div 100) ELSE -1
    IN  [color |-> color,
         opacity |-> IF opacity # -1 /\ opacity < 1000 THEN opacity ELSE -1]

\* services/pptx/parser.ts: the solid fill of an element, or no fill
parseFill(colorFill) ==
    LET colorResult == parseColor(colorFill)
    IN  Resolved("services", HexColor(colorResult.color), HexColor(colorResult.color),
                 colorResult.opacity,
                 colorResult.color # "" /\ colorResult.opacity # 0, -1)

\* utils/color.ts: scale the three channels
applyLuminanceModulation(color, lumMod) ==
    LET factor == Max2(0, Min2(1000, lumMod \div 100))
        scale(v) == (v * factor + 500) \div 1000
    IN  [color EXCEPT !.r = scale(color.r), !.g = scale(color.g), !.b = scale(color.b)]

\* utils/color.ts: move the three channels towards white
applyLuminanceOffset(color, lumOff) ==
    LET offset == Max2(0, Min2(1000, lumOff \div 100))
        shift(v) == v + (((255 - v) * offset + 500) \div 1000)
    IN  [color EXCEPT !.r = shift(color.r), !.g = shift(color.g), !.b = shift(color.b)]

\* utils/color.ts, no custom theme: THEME_COLORS and DEFAULT_THEME_COLORS
resolveThemeColor(schemeName) ==
    CASE schemeName \in {"bg1", "bg2"} -> "FFFFFF"
      [] schemeName \in {"tx1", "tx2"} -> "000000"
      [] schemeName = "accent1" -> "4F81BD"
      [] OTHER -> "000000"

\* utils/color.ts: the table has camel-case keys; unknown names are black
getPresetColor(presetName) ==
    CASE presetName = "red" -> "FF0000"
      [] presetName = "silver" -> "C0C0C0"
      [] OTHER -> "000000"

\* utils/color.ts: the CSS colour of a colour node
parseOfficeColor(colorObj) ==
    LET lumMod == rawModifier(colorObj, "a:lumMod")
        lumOff == rawModifier(colorObj, "a:lumOff")
        themed == tinycolor(resolveThemeColor(colorObj.val))
        darker == IF lumMod # -1
                  THEN applyLuminanceModulation(themed, IF lumMod = 0 THEN 100000 ELSE lumMod)
                  ELSE themed
        lighter == IF lumOff # -1 THEN applyLuminanceOffset(darker, lumOff) ELSE darker
        base == CASE colorObj.tag \in {"a:srgbClr", "a:sysClr"} -> tinycolor(colorObj.val)
                  [] colorObj.tag = "a:schemeClr" -> themed
                  [] colorObj.tag = "a:prstClr" -> tinycolor(getPresetColor(colorObj.val))
    IN  Resolved("utils", base,
                 IF colorObj.tag = "a:schemeClr" THEN lighter ELSE base, -1, TRUE, -1)

(***************************************************************************)
(* SpecColor: one colour node, resolved by one of the resolvers.           *)
(***************************************************************************)
MaxModifiers == 2   \* modifier children of one colour node

ModifierNames ==
    {"a:alpha", "a:hueMod", "a:lumMod", "a:lumOff", "a:satMod", "a:shade", "a:tint"}

ModifierValues == {0, 50000, 100000}

ModifierLists ==
    {ms \in UNION {[1..n -> {Modifier(nm, v) : nm \in ModifierNames, v \in ModifierValues}] :
                      n \in 0..MaxModifiers} :
        \A i, j \in 1..Len(ms) : i # j => ms[i].name # ms[j].name}

BaseNodes ==
    {ColorNode("a:srgbClr", "FF0000", <<>>), ColorNode("a:srgbClr", "336699", <<>>),
     ColorNode("a:sysClr", "C0C0C0", <<>>),
     ColorNode("a:schemeClr", "tx1", <<>>), ColorNode("a:schemeClr", "bg1", <<>>),
     ColorNode("a:schemeClr", "accent1", <<>>),
     ColorNode("a:prstClr", "red", <<>>), ColorNode("a:prstClr", "notAColor", <<>>)}

ColorNodes == {[b EXCEPT !.modifiers = ms] : b \in BaseNodes, ms \in ModifierLists}

ColorMaps == {"", "standard", "inverted"}

\* the scheme colours without modifiers
SchemeNodes ==
    {b \in BaseNodes : b.tag = "a:schemeClr"} \cup
    {ColorNode("a:schemeClr", "tx2", <<>>), ColorNode("a:schemeClr", "bg2", <<>>)}

\* any colour node under the usual maps, or a plain scheme colour under any
InitColor ==
    /\ \/ /\ colorNode \in ColorNodes
          /\ colorContext = ParsingContext("", "", "standard")
       \/ /\ colorNode \in SchemeNodes
          /\ colorContext \in {ParsingContext(sl, la, ma) : sl, la, ma \in ColorMaps}
    /\ resolved = NotParsed
    /\ IdleShape
    /\ IdleTree
    /\ IdlePackage
    /\ IdleText
    /\ IdleHandler
    /\ IdleConvert
    /\ IdleLate

\* modules: parseShape resolves the fill, convertShape writes it out
ParseShapeFill ==
    /\ resolved = NotParsed
    /\ resolved' = parseShapeFill(colorNode, colorContext)
    /\ UNCHANGED <<colorNode, colorContext, shapeVars, treeVars, pkgVars, textVars, handlerVars, convertVars, lateVars>>

\* services: parseFill on the a:solidFill
ParseFill ==
    /\ resolved = NotParsed
    /\ resolved' = parseFill(colorNode)
    /\ UNCHANGED <<colorNode, colorContext, shapeVars, treeVars, pkgVars, textVars, handlerVars, convertVars, lateVars>>

\* utils/color: parseOfficeColor on the a:solidFill
ParseOfficeColor ==
    /\ resolved = NotParsed
    /\ resolved' = parseOfficeColor(colorNode)
    /\ UNCHANGED <<colorNode, colorContext, shapeVars, treeVars, pkgVars, textVars, handlerVars, convertVars, lateVars>>

NextColor == ParseShapeFill \/ ParseFill \/ ParseOfficeColor

SpecColor == InitColor /\ [][NextColor]_vars

AlphaOf(node) == rawModifier(node, "a:alpha")

\* C13: a resolved colour has an opacity only if the colour node has an
\* alpha modifier and its value is below 100%; without the modifier, or with
\* alpha = 100%, there is no opacity field.
C13_OpacityOnlyBelowOne ==
    (resolved # NotParsed /\ resolved.opacity # -1) =>
        (AlphaOf(colorNode) # -1 /\ AlphaOf(colorNode) < 100000)

\* C14: a solid fill whose alpha modifier is 0% is no fill: the element has no
\* fill, no opacity 0 and no 00 alpha suffix.
C14_TransparentIsNoFill ==
    (resolved # NotParsed /\ resolved.by \in {"modules", "services"}
        /\ AlphaOf(colorNode) = 0) =>
        (~resolved.hasFill /\ resolved.opacity # 0 /\ resolved.suffix # 0)

ModifierOrder == <<"a:hueMod", "a:lumMod", "a:lumOff", "a:satMod", "a:shade", "a:tint">>

\* the modifiers of the node from the i-th of the fixed order on, applied to c
RECURSIVE InFixedOrder(_, _, _)
InFixedOrder(c, node, i) ==
    IF i > Len(ModifierOrder) THEN c
    ELSE CHOOSE out \in
             {InFixedOrder(next, node, i + 1) :
                 next \in {IF modifierValue(node, ModifierOrder[i]) # -1
                           THEN applyModifier(ModifierOrder[i], c,
                                              modifierValue(node, ModifierOrder[i]), FALSE)
                           ELSE c}} : TRUE

\* C15: the resolved colour is the base colour with the modifiers of the node
\* applied in the order hueMod, lumMod, lumOff, satMod, shade, tint, whatever
\* their order in the XML, each to the HSL of the colour before it.
C15_ModifiersInFixedOrder ==
    (resolved # NotParsed /\ resolved.base # NoColor) =>
        resolved.color = InFixedOrder(resolved.base, colorNode, 1)

\* C17: a preset colour whose name is not in the table resolves to black
\* and a style-resolution warning is recorded.
C17_UnknownPresetWarned ==
    (resolved # NotParsed /\ colorNode = ColorNode("a:prstClr", "notAColor", <<>>)) =>
        (resolved.color = Black /\ resolved.warnings # <<>>)

\* the colour map the order slide, layout, master selects; "" when none has one
MapInOrder(ctx) ==
    IF ctx.slideContent # "" THEN ctx.slideContent
    ELSE IF ctx.slideLayoutContent # "" THEN ctx.slideLayoutContent
    ELSE ctx.slideMasterContent

\* C18: a mapped scheme colour (tx1, bg1) is looked up through the slide's
\* override if the slide has one, else through the layout's override if the
\* layout has one, else through the master's map.
C18_ColorMapOrder ==
    (resolved # NotParsed /\ resolved.by = "modules"
        /\ colorNode.tag = "a:schemeClr" /\ colorNode.val \in {"tx1", "bg1"}
        /\ MapInOrder(colorContext) # "") =>
        resolved.base =
            tinycolor(themeContent("a:" \o ColorMapOverride(MapInOrder(colorContext))[colorNode.val]))

\* tx1 resolved where the slide has no override, the layout inverts the map
\* and the master has the usual one: the layout's map gives white
C18_LayoutOverrideUsed ==
    /\ resolved # NotParsed
    /\ resolved.by = "modules"
    /\ colorNode = ColorNode("a:schemeClr", "tx1", <<>>)
    /\ colorContext = ParsingContext("", "inverted", "standard")
    /\ resolved.base = tinycolor("FFFFFF")

(***************************************************************************)
(* SpecText: the colour of one text run.  Each of the four places a colour *)
(* can come from holds the hex of an a:solidFill/a:srgbClr, or "" when the *)
(* a:solidFill is not there.  lvl is the lvl attribute of a:pPr (-1: not   *)
(* set) and lvlKey the N of the a:lvlNpPr child that a:pPr has.            *)
(***************************************************************************)
TextRun(run, defRPr, lvl, lvlKey, lvlDefRPr, lstStyle) ==
    [run |-> run, defRPr |-> defRPr, lvl |-> lvl, lvlKey |-> lvlKey,
     lvlDefRPr |-> lvlDefRPr, lstStyle |-> lstStyle]

SolidFill(hex) == ColorNode("a:srgbClr", hex, <<>>)

\* elements/shape.ts: run, paragraph default, list level, list style
resolveTextColor(t, ctx) ==
    IF t.run # "" THEN resolveSolidFill(SolidFill(t.run), ctx)
    ELSE IF t.defRPr # "" THEN resolveSolidFill(SolidFill(t.defRPr), ctx)
    ELSE IF t.lvl # -1 /\ t.lvlKey = t.lvl /\ t.lvlDefRPr # ""
         THEN resolveSolidFill(SolidFill(t.lvlDefRPr), ctx)
    ELSE IF t.lstStyle # "" THEN resolveSolidFill(SolidFill(t.lstStyle), ctx)
    ELSE NoColor

\* the run of a parsed paragraph and the defaultColor convertText derives
\* from it (firstRun?.color || '#000000')
ParsedRun(by, color) ==
    [by |-> by, color |-> color,
     defaultColor |-> IF color = NoColor THEN Black ELSE color]

\* elements/shape.ts parseTextBodyToParagraphs: the colour of resolveTextColor
parseRunOfShape(t, ctx) == ParsedRun("elements/shape", resolveTextColor(t, ctx))

\* parser.ts parseTextBodyToParagraphs: the run's own a:solidFill, or none
parseRunOfParser(t, ctx) ==
    ParsedRun("parser",
              IF t.run # "" THEN resolveSolidFill(SolidFill(t.run), ctx) ELSE NoColor)

TextColors == {"", "FF0000", "336699"}

TextRuns ==
    {TextRun(r, d, lvl, key, ld, ls) :
        r \in TextColors, d \in TextColors, lvl \in {-1, 0, 1}, key \in {0, 1},
        ld \in TextColors, ls \in TextColors}

InitText ==
    /\ textIn \in TextRuns
    /\ textOut = NotParsed
    /\ IdleShape
    /\ IdleTree
    /\ IdlePackage
    /\ IdleColor
    /\ IdleHandler
    /\ IdleConvert
    /\ IdleLate

ParseTextBodyOfShape ==
    /\ textOut = NotParsed
    /\ textOut' = parseRunOfShape(textIn, ParsingContext("", "", "standard"))
    /\ UNCHANGED <<textIn, shapeVars, treeVars, pkgVars, colorVars, handlerVars, convertVars, lateVars>>

ParseTextBodyOfParser ==
    /\ textOut = NotParsed
    /\ textOut' = parseRunOfParser(textIn, ParsingContext("", "", "standard"))
    /\ UNCHANGED <<textIn, shapeVars, treeVars, pkgVars, colorVars, handlerVars, convertVars, lateVars>>

NextText == ParseTextBodyOfShape \/ ParseTextBodyOfParser

SpecText == InitText /\ [][NextText]_vars

\* the first populated of the four levels, "" when none is
FirstPopulated(t) ==
    IF t.run # "" THEN t.run
    ELSE IF t.defRPr # "" THEN t.defRPr
    ELSE IF t.lvl # -1 /\ t.lvlKey = t.lvl /\ t.lvlDefRPr # "" THEN t.lvlDefRPr
    ELSE t.lstStyle

\* C16: the colour of a run is the colour of the first populated level in
\* the order run fill, paragraph default, list level of the paragraph, list
\* style of the text body; with no level populated the run has no colour.
C16_TextColorInheritance ==
    textOut # NotParsed =>
        textOut.color = IF FirstPopulated(textIn) = "" THEN NoColor
                        ELSE tinycolor(FirstPopulated(textIn))

(***************************************************************************)
(* utils/error-handler.ts: ConversionErrorHandler.  An option that is not  *)
(* given is "undefined"; the null a call returns is "null".                *)
(***************************************************************************)
WarningDetail(code, message, elementId, slideIndex) ==
    [code |-> code, message |-> message, elementId |-> elementId,
     slideIndex |-> slideIndex]

\* addWarning: one WarningDetail more at the end of this.warnings
addWarning(warnings, code, message, elementId, slideIndex) ==
    Append(warnings, WarningDetail(code, message, elementId, slideIndex))

ElementErrorOptions(operation, slideIndex, throw, defaultValue) ==
    [operation |-> operation, slideIndex |-> slideIndex, throw |-> throw,
     defaultValue |-> defaultValue]

\* the handler that returns the default value and keeps the warnings as they are
handleElementErrorUnrecorded(warnings, element, error, options) ==
    [warnings |-> warnings,
     threw    |-> options.throw = "true",
     returned |-> IF options.throw = "true" THEN ""
                  ELSE IF options.defaultValue = "undefined" THEN "null"
                  ELSE options.defaultValue]

\* handleElementError: log, add the warning, then throw or return the default
handleElementError(warnings, element, error, options) ==
    LET operation    == IF options.operation = "undefined" THEN "conversion"
                        ELSE options.operation
        shouldThrow  == options.throw = "true"
        defaultValue == IF options.defaultValue = "undefined" THEN "null"
                        ELSE options.defaultValue
        elementId    == IF element.id = "" THEN "unknown" ELSE element.id
    IN  [warnings |-> addWarning(warnings, "WARN_ELEMENT_FAILED",
                                 "Element " \o operation \o " failed: " \o error,
                                 elementId, options.slideIndex),
         threw    |-> shouldThrow,
         returned |-> IF shouldThrow THEN "" ELSE defaultValue]

\* getWarnings: one entry per code, in the order the codes first occur, with
\* the message of the first and the number of occurrences
RECURSIVE getWarnings(_)
getWarnings(warnings) ==
    IF warnings = <<>> THEN <<>>
    ELSE LET first == Head(warnings)
             same  == SelectSeq(warnings, LAMBDA w : w.code = first.code)
             rest  == SelectSeq(warnings, LAMBDA w : w.code # first.code)
         IN  <<[code |-> first.code, message |-> first.message, count |-> Len(same)]>>
                 \o getWarnings(rest)

(***************************************************************************)
(* SpecHandler: calls on one handler and on a child made by                *)
(* createChildProcessor, whose addWarning also adds to the parent.         *)
(***************************************************************************)
MaxCalls == 3   \* handleElementError calls, and warnings in one handler

FailedElements == {[id |-> "shape-1", type |-> "shape"], [id |-> "", type |-> ""]}

OptionSets ==
    {ElementErrorOptions("undefined", 0, th, dv) :
        th \in {"undefined", "false", "true"},
        dv \in {"undefined", "null", "fallback"}}

InitHandler ==
    /\ handlerWarnings = <<>>
    /\ childWarnings = <<>>
    /\ handled = NotParsed
    /\ IdleShape
    /\ IdleTree
    /\ IdlePackage
    /\ IdleColor
    /\ IdleText
    /\ IdleConvert
    /\ IdleLate

Calls == IF handled = NotParsed THEN 0 ELSE handled.seq

\* errorHandler.handleElementError(element, error, options), on the handler
\* itself or on its child
HandleElementError ==
    /\ Calls < MaxCalls
    /\ Len(handlerWarnings) < MaxCalls
    /\ \E target \in {"handler", "child"}, element \in FailedElements,
          options \in OptionSets :
          LET own   == IF target = "handler" THEN handlerWarnings ELSE childWarnings
              r     == handleElementError(own, element, "Conversion failed", options)
          IN  /\ handlerWarnings' =
                     handleElementError(handlerWarnings, element, "Conversion failed",
                                        options).warnings
              /\ childWarnings' = IF target = "child" THEN r.warnings ELSE childWarnings
              /\ handled' = [seq |-> Calls + 1, target |-> target, options |-> options,
                             threw |-> r.threw, returned |-> r.returned,
                             recorded |-> SubSeq(r.warnings, Len(own) + 1, Len(r.warnings))]
    /\ UNCHANGED <<shapeVars, treeVars, pkgVars, colorVars, textVars, convertVars, lateVars>>

\* errorHandler.addWarning(code, message) by some other caller
AddWarning ==
    /\ Len(handlerWarnings) < MaxCalls
    /\ handlerWarnings' = addWarning(handlerWarnings, "WARN_SMARTART_SKIPPED",
                                     "SmartArt elements are not supported", "", -1)
    /\ UNCHANGED <<childWarnings, handled>>
    /\ UNCHANGED <<shapeVars, treeVars, pkgVars, colorVars, textVars, convertVars, lateVars>>

\* errorHandler.clearWarnings()
ClearWarnings ==
    /\ handlerWarnings # <<>>
    /\ handlerWarnings' = <<>>
    /\ UNCHANGED <<childWarnings, handled>>
    /\ UNCHANGED <<shapeVars, treeVars, pkgVars, colorVars, textVars, convertVars, lateVars>>

NextHandler == HandleElementError \/ AddWarning \/ ClearWarnings

SpecHandler == InitHandler /\ [][NextHandler]_vars

\* C20: a handleElementError call without the throw option does not throw,
\* records exactly one warning, with the code WARN_ELEMENT_FAILED, and returns
\* the default value it was given, or null when it was given none.
C20_ElementErrorContained ==
    (handled # NotParsed /\ handled.options.throw # "true") =>
        /\ ~handled.threw
        /\ Len(handled.recorded) = 1
        /\ handled.recorded[1].code = "WARN_ELEMENT_FAILED"
        /\ handled.returned = IF handled.options.defaultValue = "fallback"
                              THEN "fallback" ELSE "null"

\* a call with a default value and no throw option has been handled
C20_DefaultReturned ==
    /\ handled # NotParsed
    /\ handled.options.throw = "undefined"
    /\ handled.options.defaultValue = "fallback"
    /\ handled.returned = "fallback"
    /\ Len(handlerWarnings) = 1

(***************************************************************************)
(* SpecConvert: convertSlides of modules/conversion/services/converter.ts, *)
(* one step per converter call.  A converter gets the context by           *)
(* reference: a call is modelled by what it returns or throws together     *)
(* with the context as the call leaves it.                                 *)
(***************************************************************************)
\* createConversionContext(requestId, slideSize), after processMedia
ConverterContext(slideSize, mediaMap) ==
    [requestId |-> "req-1", warnings |-> <<>>, mediaMap |-> mediaMap,
     slideSize |-> slideSize, currentSlideIndex |-> 0]

\* a parsed element; one without transform (or rows) makes its converter throw
SourceElement(type, id, hasTransform) ==
    [type |-> type, id |-> id, hasTransform |-> hasTransform]

ConverterCall(threw, converted, ctx) ==
    [threw |-> threw, converted |-> converted, context |-> ctx]

\* a shape converter that also moves the slide index of the context
convertShapeCallMovingIndex(element, ctx) ==
    ConverterCall(~element.hasTransform,
                  IF element.hasTransform THEN convertShape(element) ELSE Null,
                  [ctx EXCEPT !.currentSlideIndex = ctx.currentSlideIndex + 1])

\* converters/shape.ts convertShape: reads context.slideSize, writes nothing
convertShapeCall(element, ctx) ==
    ConverterCall(~element.hasTransform,
                  IF element.hasTransform THEN convertShape(element) ELSE Null,
                  ctx)

\* converters/table.ts convertTable: reads context.slideSize, writes nothing
convertTableCall(element, ctx) ==
    ConverterCall(~element.hasTransform,
                  IF element.hasTransform
                  THEN TargetElement("table", 2000 + element.id, -1, "") ELSE Null,
                  ctx)

\* convertElement: the converter registered for the type of the element
convertElementCall(element, ctx) ==
    CASE element.type = "shape" -> convertShapeCall(element, ctx)
      [] element.type = "table" -> convertTableCall(element, ctx)

MaxSlideElems == 2   \* elements of one slide handed to convertSlide

SourceKinds ==
    {SourceElement("shape", 1, TRUE), SourceElement("table", 2, TRUE),
     SourceElement("shape", 3, FALSE)}

SourceSlides == UNION {[1..n -> SourceKinds] : n \in 0..MaxSlideElems}

Presentations == UNION {[1..n -> SourceSlides] : n \in 0..MaxSlides}

InitConvert ==
    /\ convSlides \in Presentations
    /\ convContext = ConverterContext([width |-> 12192000, height |-> 6858000],
                                      <<[key |-> <<0, "rId1">>, data |-> "image1.png"]>>)
    /\ convIndex = 0
    /\ convPending = <<>>
    /\ convElements = <<>>
    /\ convHandler = <<>>
    /\ convOutput = <<>>
    /\ convPc = "slides"
    /\ IdleShape
    /\ IdleTree
    /\ IdlePackage
    /\ IdleColor
    /\ IdleText
    /\ IdleHandler
    /\ IdleLate

\* convertSlides: context.currentSlideIndex = i, then convertSlide is entered
\* with a new error handler
StartSlide ==
    /\ convPc = "slides"
    /\ convIndex < Len(convSlides)
    /\ convContext' = [convContext EXCEPT !.currentSlideIndex = convIndex]
    /\ convPending' = convSlides[convIndex + 1]
    /\ convElements' = <<>>
    /\ convHandler' = <<>>
    /\ convPc' = "element"
    /\ UNCHANGED <<convIndex, convSlides, convOutput>>
    /\ UNCHANGED <<shapeVars, treeVars, pkgVars, colorVars, textVars, handlerVars, lateVars>>

\* convertSlide: one turn of the loop, convertElement in its try/catch
ConvertElement ==
    /\ convPc = "element"
    /\ convPending # <<>>
    /\ LET pptxElement == Head(convPending)
           call == convertElementCall(pptxElement, convContext)
       IN  /\ convContext' = call.context
           /\ convElements' = IF call.threw THEN convElements
                              ELSE Append(convElements, call.converted)
           /\ convHandler' =
                  IF call.threw
                  THEN handleElementError(convHandler,
                           [id |-> ToString(pptxElement.id), type |-> pptxElement.type],
                           "TypeError",
                           ElementErrorOptions("conversion", convIndex, "undefined",
                                               "undefined")).warnings
                  ELSE convHandler
    /\ convPending' = Tail(convPending)
    /\ UNCHANGED <<convIndex, convSlides, convOutput, convPc>>
    /\ UNCHANGED <<shapeVars, treeVars, pkgVars, colorVars, textVars, handlerVars, lateVars>>

\* convertSlide: after the loop the warnings of the handler are pushed to
\* context.warnings and the slide is returned
FinishSlide ==
    /\ convPc = "element"
    /\ convPending = <<>>
    /\ convContext' = [convContext EXCEPT
                          !.warnings = IF convHandler # <<>>
                                       THEN @ \o getWarnings(convHandler) ELSE @]
    /\ convOutput' = Append(convOutput, TargetSlide(convIndex + 1, convElements))
    /\ convIndex' = convIndex + 1
    /\ convPc' = "slides"
    /\ UNCHANGED <<convSlides, convPending, convElements, convHandler>>
    /\ UNCHANGED <<shapeVars, treeVars, pkgVars, colorVars, textVars, handlerVars, lateVars>>

\* convertSlides returns the slides
FinishSlides ==
    /\ convPc = "slides"
    /\ convIndex = Len(convSlides)
    /\ convPc' = "done"
    /\ UNCHANGED <<convContext, convIndex, convSlides, convPending, convElements,
                   convHandler, convOutput>>
    /\ UNCHANGED <<shapeVars, treeVars, pkgVars, colorVars, textVars, handlerVars, lateVars>>

NextConvert == StartSlide \/ ConvertElement \/ FinishSlide \/ FinishSlides

SpecConvert == InitConvert /\ [][NextConvert]_vars

IsPrefix(a, b) == Len(a) <= Len(b) /\ SubSeq(b, 1, Len(a)) = a

\* C19: a step inside convertSlide (a converter call, or the hand-over of the
\* slide's warnings) leaves the media map, the current slide index, the slide
\* size and the request id of the context as they are and only appends to
\* its warnings.
C19_ConverterFrame ==
    [][convPc = "element" =>
          /\ convContext'.mediaMap = convContext.mediaMap
          /\ convContext'.currentSlideIndex = convContext.currentSlideIndex
          /\ convContext'.slideSize = convContext.slideSize
          /\ convContext'.requestId = convContext.requestId
          /\ IsPrefix(convContext.warnings, convContext'.warnings)]_vars

\* two slides are done: the first had a failing element and left a warning,
\* the second was converted with the index moved on by convertSlides
C19_WarningsAppended ==
    /\ convPc = "done"
    /\ Len(convOutput) = 2
    /\ convOutput[2].elements # <<>>
    /\ convContext.warnings # <<>>
    /\ convContext.currentSlideIndex = 1

(***************************************************************************)
(* SpecGeometry: the p:spPr of one shape goes through parseTransform and   *)
(* the fill of parseShape, then through convertShape.                      *)
(***************************************************************************)
\* a:xfrm: the attributes of a:off and a:ext (-1: the attribute is missing)
Xfrm(x, y, cx, cy) == [x |-> x, y |-> y, cx |-> cx, cy |-> cy]

\* parseInt(attr || '0', 10)
parseIntOrZero(attr) == IF attr = -1 THEN 0 ELSE attr

\* elements/shape.ts parseTransform
parseTransform(xfrm) ==
    [x |-> parseIntOrZero(xfrm.x), y |-> parseIntOrZero(xfrm.y),
     width |-> parseIntOrZero(xfrm.cx), height |-> parseIntOrZero(xfrm.cy)]

\* parseShape: transform and fill of a shape without text
parseShapeRect(spPr, ctx) ==
    LET fillResult == IF spPr.solidFill # NotParsed
                      THEN resolveSolidFillWithAlpha(spPr.solidFill, ctx)
                      ELSE [color |-> NoColor, alpha |-> -1]
    IN  [type |-> "shape", transform |-> parseTransform(spPr.xfrm),
         fill |-> fillResult.color, fillOpacity |-> fillResult.alpha]

EmuPerPixel == 9525   \* 914400 EMU to the inch, 96 pixels to the inch

\* createEmuConverters(slideSize), at the scale of 96 DPI
toPixel(emu) == emu \div EmuPerPixel

HexDigits == "0123456789ABCDEF"

HexDigit(n) == SubSeq(HexDigits, n + 1, n + 1)

\* n.toString(16).padStart(2, '0').toUpperCase(), n in 0..255
toHexByte(n) == HexDigit(n \div 16) \o HexDigit(n % 16)

\* Math.floor instead of Math.round
floorAlpha(fillOpacity) == (fillOpacity * 255) \div 1000

\* Math.round(fillOpacity * 255), the opacity in 1/1000
roundAlpha(fillOpacity) == (fillOpacity * 255 + 500) \div 1000

\* convertShape: pixel frame and the fill with the opacity merged into it;
\* the fill is '#', the six digits of the colour and the digits of alphaHex
convertShapeGeometry(element) ==
    LET finalFill == IF element.fill # NoColor THEN element.fill
                     ELSE tinycolor("FFFFFF")
        alphaHex  == IF element.fillOpacity # -1
                     THEN toHexByte(roundAlpha(element.fillOpacity)) ELSE ""
    IN  [type |-> "shape",
         left |-> toPixel(element.transform.x),
         top |-> toPixel(element.transform.y),
         width |-> toPixel(element.transform.width),
         height |-> toPixel(element.transform.height),
         fill |-> [color |-> finalFill, alphaHex |-> alphaHex]]

Offsets == {-1, 914400}
Widths  == {914400, 1828800}
Heights == {685800, 1371600}

RectFills ==
    {NotParsed} \cup
    {ColorNode("a:srgbClr", hex, ms) :
        hex \in {"FF0000", "4472C4"},
        ms \in {<<>>} \cup {<<Modifier("a:alpha", v)>> : v \in {0, 50000, 100000}}}

InitGeometry ==
    /\ rectIn \in {[xfrm |-> Xfrm(x, y, cx, cy), solidFill |-> f] :
                      x \in Offsets, y \in Offsets, cx \in Widths, cy \in Heights,
                      f \in RectFills}
    /\ rectOut = NotParsed
    /\ IdleRestOfGeom

\* parseShape on the p:spPr
ParseShapeRect ==
    /\ rectOut = NotParsed
    /\ rectOut' = [type |-> "parsed",
                   element |-> parseShapeRect(rectIn, ParsingContext("", "", "standard")),
                   converted |-> NotParsed]
    /\ UNCHANGED <<rectIn, restOfGeom>>

\* convertShape on the parsed shape
ConvertShapeRect ==
    /\ rectOut.type = "parsed"
    /\ rectOut' = [rectOut EXCEPT !.type = "converted",
                                  !.converted = convertShapeGeometry(rectOut.element)]
    /\ UNCHANGED <<rectIn, restOfGeom>>

NextGeometry == ParseShapeRect \/ ConvertShapeRect

SpecGeometry == InitGeometry /\ [][NextGeometry]_vars

\* the rectangle of the scenario: one inch from the corner, two inches by one
\* and a half, FF0000 at 50% alpha
ScenarioRect ==
    /\ rectIn.xfrm = Xfrm(914400, 914400, 1828800, 1371600)
    /\ rectIn.solidFill = ColorNode("a:srgbClr", "FF0000", <<Modifier("a:alpha", 50000)>>)

ProgressSteps == <<5, 15, 30, 50, 80, 90, 100>>

\* How the work on a task ends: the conversion succeeds, it fails after `at`
\* progress reports (convert catches the error and returns success: false),
\* or a step of processTask itself throws, before the update of the task
\* (at = 0) or after the task was marked COMPLETED (at = 1).
Outcome(kind, at) == [kind |-> kind, at |-> at]

Outcomes ==
    {Outcome("success", 0)} \cup
    {Outcome("failure", k) : k \in 1..(Len(ProgressSteps) - 1)} \cup
    {Outcome("exception", 0), Outcome("exception", 1)}

\* the progress reports the conversion makes before it returns
Reports(outcome) ==
    IF outcome.kind = "failure" THEN outcome.at ELSE Len(ProgressSteps)

\* a handler that returns whatever processTask returned
taskHandlerReturning(success) == "handler-returned"

\* taskHandler: if (!success) throw new Error(...); return task.result
taskHandler(success) == IF ~success THEN "handler-threw" ELSE "handler-returned"

InitWorker ==
    /\ workerOutcome \in Outcomes
    /\ workerPc = "called"
    /\ convStep = 0
    /\ inFlight = {}
    /\ taskStatus = "processing"
    /\ taskProgress = 0
    /\ taskError = ""
    /\ uploadedFile = TRUE
    /\ IdleRestOfWorker

\* taskHandler builds the task object, processTask enters its try block and
\* calls runConversion
ProcessTask ==
    /\ workerPc = "called"
    /\ workerPc' = "conversion"
    /\ UNCHANGED <<workerOutcome, convStep, inFlight, taskStatus, taskProgress,
                   taskError, uploadedFile, restOfWorker>>

\* onProgress: updateTaskProgress(task.id, progress, message) is called and
\* not awaited; its queue.updateTask({progress}) is under way
OnProgress ==
    /\ workerPc = "conversion"
    /\ convStep < Reports(workerOutcome)
    /\ inFlight' = inFlight \cup {ProgressSteps[convStep + 1]}
    /\ convStep' = convStep + 1
    /\ UNCHANGED <<workerOutcome, workerPc, taskStatus, taskProgress, taskError,
                   uploadedFile, restOfWorker>>

\* the queue applies an update of updateTaskProgress
ApplyProgress ==
    /\ \E progress \in inFlight :
          /\ taskProgress' = progress
          /\ inFlight' = inFlight \ {progress}
    /\ UNCHANGED <<workerOutcome, workerPc, convStep, taskStatus, taskError,
                   uploadedFile, restOfWorker>>

\* runConversion has returned its result (or a step after it throws)
ConversionReturns ==
    /\ workerPc = "conversion"
    /\ convStep = Reports(workerOutcome)
    /\ workerPc' = CASE workerOutcome = Outcome("exception", 0) -> "catch"
                     [] workerOutcome.kind = "failure"          -> "write-failed"
                     [] OTHER                                   -> "write-completed"
    /\ UNCHANGED <<workerOutcome, convStep, inFlight, taskStatus, taskProgress,
                   taskError, uploadedFile, restOfWorker>>

\* result.success: await queue.updateTask({status: COMPLETED, progress: 100,
\* ...}), the warnings, the ZIP archive, return true
WriteCompleted ==
    /\ workerPc = "write-completed"
    /\ taskStatus' = "completed"
    /\ taskProgress' = 100
    /\ workerPc' = IF workerOutcome = Outcome("exception", 1) THEN "catch"
                   ELSE "returned-true"
    /\ UNCHANGED <<workerOutcome, convStep, inFlight, taskError, uploadedFile,
                   restOfWorker>>

\* else: await queue.updateTask({status: FAILED, progress: 0, error}),
\* task.error is set, return false
WriteFailed ==
    /\ workerPc = "write-failed"
    /\ taskStatus' = "failed"
    /\ taskProgress' = 0
    /\ taskError' = "Unknown error"
    /\ workerPc' = "returned-false"
    /\ UNCHANGED <<workerOutcome, convStep, inFlight, uploadedFile, restOfWorker>>

\* catch: await queue.updateTask({status: FAILED, progress: 0, error}),
\* task.error is set, cleanupUploadedFile, return false
CatchError ==
    /\ workerPc = "catch"
    /\ taskStatus' = "failed"
    /\ taskProgress' = 0
    /\ taskError' = "Unknown error"
    /\ uploadedFile' = FALSE
    /\ workerPc' = "returned-false"
    /\ UNCHANGED <<workerOutcome, convStep, inFlight, restOfWorker>>

\* processTask has returned: taskHandler returns the result or throws
TaskHandlerSettles ==
    /\ workerPc \in {"returned-true", "returned-false"}
    /\ workerPc' = taskHandler(workerPc = "returned-true")
    /\ UNCHANGED <<workerOutcome, convStep, inFlight, taskStatus, taskProgress,
                   taskError, uploadedFile, restOfWorker>>

\* the queue marks the task by the outcome of its handler: COMPLETED when
\* the handler returned, FAILED when it threw
QueueSettles ==
    /\ workerPc \in {"handler-returned", "handler-threw"}
    /\ taskStatus' = IF workerPc = "handler-returned" THEN "completed" ELSE "failed"
    /\ workerPc' = "done"
    /\ UNCHANGED <<workerOutcome, convStep, inFlight, taskProgress, taskError,
                   uploadedFile, restOfWorker>>

NextWorker ==
    \/ ProcessTask
    \/ OnProgress
    \/ ApplyProgress
    \/ ConversionReturns
    \/ WriteCompleted
    \/ WriteFailed
    \/ CatchError
    \/ TaskHandlerSettles
    \/ QueueSettles

SpecWorker == InitWorker /\ [][NextWorker]_vars

\* C22: a task marked FAILED is not marked COMPLETED by a later update of
\* the worker or of the queue, and a task whose conversion did not succeed
\* is FAILED when the queue is done with it.
C22_FailedStaysFailed ==
    /\ [][taskStatus = "failed" => taskStatus' # "completed"]_vars
    /\ [](workerPc = "done" /\ workerOutcome.kind # "success" => taskStatus = "failed")

\* the conversion returned a failure, processTask returned false and the
\* queue has settled the task
C22_FailureSettled ==
    /\ workerPc = "done"
    /\ workerOutcome.kind = "failure"
    /\ taskError # ""
    /\ taskStatus = "failed"

C29_UploadCleanedUp ==
    workerPc \in {"returned-true", "returned-false", "handler-returned",
                  "handler-threw", "done"} => ~uploadedFile

(***************************************************************************)
(* SpecRels: parsePPTX of the modules parser on a package whose slide      *)
(* parts are named by any numbers: the list of slide files from            *)
(* [Content_Types].xml, then the loop that parses slide i and builds its   *)
(* rId -> media map.                                                       *)
(***************************************************************************)
MaxSlideNumber == 3   \* largest number in the name of a slide part

\* A package: the Override entries of the slide parts in the order of
\* [Content_Types].xml (the number n stands for ppt/slides/slide<n>.xml) and,
\* per number, the media file that rId1 of ppt/slides/_rels/slide<n>.xml.rels
\* points at ("": there is no such relationships file)
Archive(overrides, rels) == [overrides |-> overrides, rels |-> rels]

\* the place of n in a list sorted by number
RECURSIVE insertByNumber(_, _)
insertByNumber(n, sorted) ==
    IF sorted = <<>> THEN <<n>>
    ELSE IF n < Head(sorted) THEN <<n>> \o sorted
    ELSE <<Head(sorted)>> \o insertByNumber(n, Tail(sorted))

\* sortByNumber: ascending by the number before .xml
RECURSIVE sortByNumber(_)
sortByNumber(arr) ==
    IF arr = <<>> THEN <<>>
    ELSE insertByNumber(Head(arr), sortByNumber(Tail(arr)))

\* getContentTypes: the slide parts, sorted by number
getContentTypes(zip) == sortByNumber(zip.overrides)

\* parseSlideRels(zip, slideNum): the relationships of
\* ppt/slides/_rels/slide<slideNum>.xml.rels with a media target, none when
\* the file does not exist
parseSlideRelsOfFile(zip, slideNum) ==
    IF slideNum \in DOMAIN zip.rels /\ zip.rels[slideNum] # ""
    THEN <<[rId |-> "rId1", target |-> [dir |-> "media", name |-> zip.rels[slideNum]]]>>
    ELSE <<>>

\* the rId -> media map of one relationships file
mediaMapOfRels(rIdToTarget) ==
    LET known == SelectSeq(rIdToTarget, LAMBDA r : r.target.name \in MediaFiles)
    IN  [k \in 1..Len(known) |-> [rId |-> known[k].rId, media |-> known[k].target.name]]

SlideNumbers == 1..MaxSlideNumber

\* the orders in which distinct slide parts can be listed
OverrideLists ==
    {o \in UNION {[1..n -> SlideNumbers] : n \in 0..MaxSlideNumber} :
        \A i, j \in 1..Len(o) : i # j => o[i] # o[j]}

\* the relationships files a package with these slide parts can hold
RelsOf(o) ==
    {f \in [SlideNumbers -> {"", "image1.png", "image2.png"}] :
        \A n \in SlideNumbers : f[n] # "" => \E i \in 1..Len(o) : o[i] = n}

Archives == UNION {{Archive(o, r) : r \in RelsOf(o)} : o \in OverrideLists}

InitRels ==
    /\ archive \in Archives
    /\ slideFiles = <<>>
    /\ relsIndex = 0
    /\ slideMediaMaps = <<>>
    /\ relsPc = "contentTypes"
    /\ IdleRestOfRels

\* parsePPTX: const { slides: slideFiles } = await getContentTypes(zip)
GetContentTypes ==
    /\ relsPc = "contentTypes"
    /\ slideFiles' = getContentTypes(archive)
    /\ relsPc' = "slides"
    /\ UNCHANGED <<archive, relsIndex, slideMediaMaps, restOfRels>>

\* one turn of the slide loop: slideNum = i + 1, parseSingleSlide on
\* slideFiles[i], parseSlideRels(zip, slideNum), the map is pushed
ParseSlideAndRels ==
    /\ relsPc = "slides"
    /\ relsIndex < Len(slideFiles)
    /\ LET slideNum == relsIndex + 1
       IN  slideMediaMaps' =
               Append(slideMediaMaps, mediaMapOfRels(parseSlideRelsOfFile(archive, slideNum)))
    /\ relsIndex' = relsIndex + 1
    /\ UNCHANGED <<archive, slideFiles, relsPc, restOfRels>>

\* the loop is over: parsePPTX returns slides and slideMediaMaps
ReturnPresentation ==
    /\ relsPc = "slides"
    /\ relsIndex = Len(slideFiles)
    /\ relsPc' = "done"
    /\ UNCHANGED <<archive, slideFiles, relsIndex, slideMediaMaps, restOfRels>>

NextRels == GetContentTypes \/ ParseSlideAndRels \/ ReturnPresentation

SpecRels == InitRels /\ [][NextRels]_vars

\* C24: the media map stored at position i is the one of the relationships
\* file of the slide file at position i of the sorted list, whatever the
\* numbers of the slide files are.
C24_MapOfSameSlideFile ==
    \A i \in 1..Len(slideMediaMaps) :
        slideMediaMaps[i] = mediaMapOfRels(parseSlideRelsOfFile(archive, slideFiles[i]))

(***************************************************************************)
(* The order reconstruction of parseShapeTree and the children of groups   *)
(* (SpecTree).                                                             *)
(***************************************************************************)
\* the shape tree with the children of its groups taken out
WithoutGroupChildren(spTree) ==
    [i \in 1..Len(spTree) |->
        IF spTree[i].tag = "p:grpSp" THEN [spTree[i] EXCEPT !.children = <<>>]
        ELSE spTree[i]]

\* the top-level elements of a parsed list, by the id of their source element
TopLevelIds(elements) == [k \in 1..Len(elements) |-> elements[k].id]

\* C25: the top-level elements parseShapeTree returns, and their order, are
\* those it returns for the same shape tree with the groups emptied: the
\* tags inside a group take no top-level position.
C25_GroupChildrenNotCounted ==
    svcSlide # NotParsed =>
        TopLevelIds(svcSlide.elements)
            = TopLevelIds(parseShapeTree(WithoutGroupChildren(tree),
                                         WithoutGroupChildren(tree)))

(***************************************************************************)
(* The warnings of the context after convertSlides (SpecConvert).          *)
(***************************************************************************)
\* how often a converter threw, over all slides of the presentation
RaisedElementFailures ==
    Len(SelectSeq(Flatten(convSlides), LAMBDA e : convertElementCall(e, convContext).threw))

\* C26: when all slides are converted the warnings of the context have one
\* entry per warning code at most, and the count of the entry is the number
\* of times the warning was raised over all slides.
C26_OneEntryPerCode ==
    convPc = "done" =>
        /\ \A i, j \in 1..Len(convContext.warnings) :
               i # j => convContext.warnings[i].code # convContext.warnings[j].code
        /\ \A i \in 1..Len(convContext.warnings) :
               convContext.warnings[i].code = "WARN_ELEMENT_FAILED"
                   => convContext.warnings[i].count = RaisedElementFailures

(***************************************************************************)
(* SpecTable: the rows of one parsed table go through convertTable of      *)
(* modules/conversion/converters/table.ts.                                 *)
(***************************************************************************)
MaxCells == 2   \* rows of a table and cells of a row
MaxSpan  == 2   \* largest row or column span of a cell

\* PPTXTableCell: the spans are 0 when the parsed cell has none
TableCellOf(text, rowSpan, colSpan) ==
    [text |-> text, rowSpan |-> rowSpan, colSpan |-> colSpan]

\* value || 1
orOne(value) == IF value = 0 THEN 1 ELSE value

\* convertCell
convertCell(cell) ==
    [colspan |-> orOne(cell.rowSpan), rowspan |-> orOne(cell.colSpan),
     text |-> cell.text]

\* convertTable: data is rows.map((row) => row.map(convertCell))
convertTable(rows) ==
    [data |-> [r \in 1..Len(rows) |->
                  [c \in 1..Len(rows[r]) |-> convertCell(rows[r][c])]]]

TableCells == {TableCellOf("a", rs, cs) : rs \in 0..MaxSpan, cs \in 0..MaxSpan}

TableRows == UNION {[1..n -> TableCells] : n \in 1..MaxCells}

Tables == UNION {[1..n -> TableRows] : n \in 1..MaxCells}

InitTable ==
    /\ tableIn \in Tables
    /\ tableOut = NotParsed
    /\ IdleRestOfTable

ConvertTable ==
    /\ tableOut = NotParsed
    /\ tableOut' = convertTable(tableIn)
    /\ UNCHANGED <<tableIn, restOfTable>>

NextTable == ConvertTable

SpecTable == InitTable /\ [][NextTable]_vars

\* C27: every converted cell has the column span of the parsed cell as
\* colspan and its row span as rowspan, 1 where the parsed cell has none.
C27_SpansKept ==
    tableOut # NotParsed =>
        \A r \in 1..Len(tableIn) : \A c \in 1..Len(tableIn[r]) :
            /\ tableOut.data[r][c].colspan = orOne(tableIn[r][c].colSpan)
            /\ tableOut.data[r][c].rowspan = orOne(tableIn[r][c].rowSpan)

(***************************************************************************)
(* The default colour mapping of the modules resolver (SpecColor).         *)
(***************************************************************************)
\* the theme slot the default mapping gives a mapped scheme colour
DefaultSlot(name) ==
    CASE name = "tx1" -> "a:dk1"
      [] name = "tx2" -> "a:dk2"
      [] name = "bg1" -> "a:lt1"
      [] name = "bg2" -> "a:lt2"

\* a scheme colour tx1, tx2, bg1 or bg2 was resolved by the modules resolver
\* under a context with no colour map on slide, layout or master
ResolvedWithoutMap ==
    /\ resolved # NotParsed
    /\ resolved.by = "modules"
    /\ colorContext = ParsingContext("", "", "")
    /\ colorNode.tag = "a:schemeClr"
    /\ colorNode.val \in {"tx1", "tx2", "bg1", "bg2"}

\* C28: without a colour map, tx1, tx2, bg1 and bg2 resolve to the value of
\* the theme slots dk1, dk2, lt1 and lt2.
C28_DefaultMapping ==
    ResolvedWithoutMap =>
        resolved.base = HexColor(themeContent(DefaultSlot(colorNode.val)))

\* ---------------------------------------------------------------------------
\* SpecUnzip: unzipPPTX walks a zip archive entry by entry (yauzl, lazyEntries)
\* ---------------------------------------------------------------------------

MaxEntries == 2

startsWith(s, prefix) ==
    Len(prefix) <= Len(s) /\ SubSeq(s, 1, Len(prefix)) = prefix

endsWith(s, suffix) ==
    Len(suffix) <= Len(s) /\ SubSeq(s, Len(s) - Len(suffix) + 1, Len(s)) = suffix

DecimalDigits == {"0", "1", "2", "3", "4", "5", "6", "7", "8", "9"}

\* number of decimal digits at the end of s
RECURSIVE trailingDigits(_)
trailingDigits(s) ==
    IF Len(s) > 0 /\ SubSeq(s, Len(s), Len(s)) \in DecimalDigits
    THEN 1 + trailingDigits(SubSeq(s, 1, Len(s) - 1))
    ELSE 0

\* fileName.match(/<stem>(\d+)<suffix>$/) finds a match
matchesNumbered(fileName, stem, suffix) ==
    /\ endsWith(fileName, suffix)
    /\ \E head \in {SubSeq(fileName, 1, Len(fileName) - Len(suffix))} :
         \E k \in {trailingDigits(head)} :
            k >= 1 /\ endsWith(SubSeq(head, 1, Len(head) - k), stem)

PPTX_PATHS ==
    [SLIDES               |-> "ppt/slides/",
     SLIDE_LAYOUTS        |-> "ppt/slideLayouts/",
     SLIDE_MASTERS        |-> "ppt/slideMasters/",
     THEME                |-> "ppt/theme/",
     MEDIA                |-> "ppt/media/",
     RELATIONSHIPS        |-> "ppt/slides/_rels/",
     GLOBAL_RELATIONSHIPS |-> "ppt/_rels/"]

DEFAULT_OPTIONS ==
    [extractMedia |-> TRUE, extractThemes |-> TRUE, extractMasters |-> TRUE,
     ignoreEncryption |-> FALSE]

\* a yauzl entry: its name, its encryption flag, and what reading it will do
\* ("end": the stream ends; "openError": openReadStream calls back with an
\* error; "streamError": the stream emits 'error')
ZipEntry(fileName, isEncrypted, fate) ==
    [fileName |-> fileName, isEncrypted |-> isEncrypted, fate |-> fate]

\* what a helper does before it returns: it requests the next entry
\* ("readEntry"), or it opens a read stream whose callbacks will
\* ("openReadStream"), or it returns without either ("return")
extractSlideDroppingEncrypted(entry, ignoreEncryption) ==
    IF ~matchesNumbered(entry.fileName, "slide", ".xml") THEN "readEntry"
    ELSE IF entry.isEncrypted /\ ~ignoreEncryption THEN "return"
    ELSE "openReadStream"

extractSlide(entry, ignoreEncryption) ==
    IF ~matchesNumbered(entry.fileName, "slide", ".xml") THEN "readEntry"
    ELSE IF entry.isEncrypted /\ ~ignoreEncryption THEN "readEntry"
    ELSE "openReadStream"

extractSlideLayout(entry) ==
    IF ~matchesNumbered(entry.fileName, "slideLayout", ".xml") THEN "readEntry"
    ELSE "openReadStream"

extractSlideMaster(entry) ==
    IF ~matchesNumbered(entry.fileName, "slideMaster", ".xml") THEN "readEntry"
    ELSE "openReadStream"

extractRelationships(entry) ==
    IF ~matchesNumbered(entry.fileName, "slide", ".xml.rels") THEN "readEntry"
    ELSE "openReadStream"

\* extractTheme, extractGlobalRelationships and extractMedia open the stream
\* at once
extractUnnumbered(entry) == "openReadStream"

\* the 'entry' listener of unzipPPTX
onEntry(entry, opts) ==
    LET entryPath == entry.fileName IN
    IF startsWith(entryPath, PPTX_PATHS.SLIDES) /\ endsWith(entryPath, ".xml")
    THEN extractSlide(entry, opts.ignoreEncryption)
    ELSE IF /\ opts.extractMasters
            /\ startsWith(entryPath, PPTX_PATHS.SLIDE_LAYOUTS)
            /\ endsWith(entryPath, ".xml")
    THEN extractSlideLayout(entry)
    ELSE IF /\ opts.extractMasters
            /\ startsWith(entryPath, PPTX_PATHS.SLIDE_MASTERS)
            /\ endsWith(entryPath, ".xml")
    THEN extractSlideMaster(entry)
    ELSE IF /\ opts.extractThemes
            /\ startsWith(entryPath, PPTX_PATHS.THEME)
            /\ endsWith(entryPath, ".xml")
    THEN extractUnnumbered(entry)
    ELSE IF /\ startsWith(entryPath, PPTX_PATHS.RELATIONSHIPS)
            /\ endsWith(entryPath, ".xml.rels")
    THEN extractRelationships(entry)
    ELSE IF entryPath = "ppt/_rels/presentation.xml.rels"
    THEN extractUnnumbered(entry)
    ELSE IF opts.extractMedia /\ startsWith(entryPath, PPTX_PATHS.MEDIA)
    THEN extractUnnumbered(entry)
    ELSE "readEntry"

ZipEntries ==
    {ZipEntry("ppt/slides/slide1.xml", FALSE, f) :
        f \in {"end", "openError", "streamError"}}
    \cup {ZipEntry("ppt/media/image1.png", FALSE, f) :
        f \in {"end", "openError", "streamError"}}
    \cup {ZipEntry("ppt/slides/slide2.xml", TRUE, "end"),
          ZipEntry("ppt/slides/notes.xml", FALSE, "end"),
          ZipEntry("ppt/slides/_rels/slide1.xml.rels", FALSE, "end"),
          ZipEntry("docProps/app.xml", FALSE, "end")}

\* fault: 0 for a sound archive, -1 when yauzl.open fails, k >= 1 when the
\* k-th request for an entry makes the zipfile emit 'error'
ZipArchives ==
    UNION {{[entries |-> es, fault |-> k, opts |-> o] :
               es \in [1..n -> ZipEntries],
               k \in -1..(n + 1),
               o \in {DEFAULT_OPTIONS,
                      [DEFAULT_OPTIONS EXCEPT !.ignoreEncryption = TRUE]}} :
           n \in 0..MaxEntries}

InitUnzip ==
    /\ IdleRestOfUnzip
    /\ zipArchive \in ZipArchives
    /\ zipPc = "open"
    /\ zipPos = 0
    /\ readEntryCalls = <<>>
    /\ extractedParts = {}
    /\ unzipPromise = "pending"

\* zipfile.readEntry() called while the entry at zipPos is being handled
readEntry ==
    /\ readEntryCalls' = [readEntryCalls EXCEPT ![zipPos] = @ + 1]
    /\ zipPc' = "readEntry"

\* the callback of yauzl.open: reject, or install the listeners and request
\* the first entry
OpenCallback ==
    /\ zipPc = "open"
    /\ IF zipArchive.fault = -1
       THEN zipPc' = "closed" /\ unzipPromise' = "rejected"
       ELSE zipPc' = "readEntry" /\ UNCHANGED unzipPromise
    /\ UNCHANGED <<zipArchive, zipPos, readEntryCalls, extractedParts, restOfUnzip>>

\* yauzl answers a request with the next entry: the 'entry' listener runs
OnEntry ==
    /\ zipPc = "readEntry"
    /\ zipArchive.fault # zipPos + 1
    /\ zipPos < Len(zipArchive.entries)
    /\ zipPos' = zipPos + 1
    /\ \E step \in {onEntry(zipArchive.entries[zipPos + 1], zipArchive.opts)} :
         /\ readEntryCalls' =
               Append(readEntryCalls, IF step = "readEntry" THEN 1 ELSE 0)
         /\ zipPc' = IF step = "return" THEN "returned" ELSE step
    /\ UNCHANGED <<zipArchive, extractedParts, unzipPromise, restOfUnzip>>

\* the callback of zipfile.openReadStream
OpenReadStreamCallback ==
    /\ zipPc = "openReadStream"
    /\ IF zipArchive.entries[zipPos].fate = "openError"
       THEN readEntry
       ELSE zipPc' = "streaming" /\ UNCHANGED readEntryCalls
    /\ UNCHANGED <<zipArchive, zipPos, extractedParts, unzipPromise, restOfUnzip>>

\* readStream.on('end'): store the part and request the next entry
OnStreamEnd ==
    /\ zipPc = "streaming"
    /\ zipArchive.entries[zipPos].fate = "end"
    /\ extractedParts' = extractedParts \cup {zipPos}
    /\ readEntry
    /\ UNCHANGED <<zipArchive, zipPos, unzipPromise, restOfUnzip>>

\* readStream.on('error'): request the next entry
OnStreamError ==
    /\ zipPc = "streaming"
    /\ zipArchive.entries[zipPos].fate = "streamError"
    /\ readEntry
    /\ UNCHANGED <<zipArchive, zipPos, extractedParts, unzipPromise, restOfUnzip>>

\* zipfile.on('end'): no entry is left, the promise resolves
OnEnd ==
    /\ zipPc = "readEntry"
    /\ zipArchive.fault # zipPos + 1
    /\ zipPos = Len(zipArchive.entries)
    /\ zipPc' = "closed"
    /\ unzipPromise' = "resolved"
    /\ UNCHANGED <<zipArchive, zipPos, readEntryCalls, extractedParts, restOfUnzip>>

\* zipfile.on('error'): the promise rejects
OnError ==
    /\ zipPc = "readEntry"
    /\ zipArchive.fault = zipPos + 1
    /\ zipPc' = "closed"
    /\ unzipPromise' = "rejected"
    /\ UNCHANGED <<zipArchive, zipPos, readEntryCalls, extractedParts, restOfUnzip>>

NextUnzip ==
    \/ OpenCallback
    \/ OnEntry
    \/ OpenReadStreamCallback
    \/ OnStreamEnd
    \/ OnStreamError
    \/ OnEnd
    \/ OnError

SpecUnzip == InitUnzip /\ [][NextUnzip]_vars

\* every step is a callback the event loop runs once its event is due
SpecUnzipFair == SpecUnzip /\ WF_vars(NextUnzip)

\* C30: while an entry is handled the next one is requested at most once, an
\* entry left behind has had exactly one request, whichever way it went
\* (skipped, extracted, failed to open, failed while streaming), and the
\* promise of unzipPPTX eventually resolves or rejects.
C30_EveryEntryAdvances ==
    /\ [](\A i \in 1..Len(readEntryCalls) :
            /\ readEntryCalls[i] <= 1
            /\ (i < zipPos \/ zipPc \in {"readEntry", "closed"})
                  => readEntryCalls[i] = 1)
    /\ <>(unzipPromise # "pending")

\* an archive whose first entry fails while streaming and whose second is
\* skipped has been read to its end
C30_ArchiveReadToEnd ==
    /\ unzipPromise = "resolved"
    /\ zipPos = 2
    /\ zipArchive.entries[1].fate = "streamError"
    /\ onEntry(zipArchive.entries[1], zipArchive.opts) = "openReadStream"
    /\ onEntry(zipArchive.entries[2], zipArchive.opts) = "readEntry"
    /\ readEntryCalls = <<1, 1>>
============================================================================
